---------------------------- MODULE Spec2Model ----------------------------
(***************************************************************************)
(* A model of marvel_metadata's core: the pool-reference decoder           *)
(* (core/decoder.py), the title matcher (reading_list/matcher.py, with     *)
(* core/normalizer.py), the reading-list parser and its range expander     *)
(* (reading_list/parser.py), the rate limiter (api/middleware.py) and the  *)
(* batch upsert of the issue repository (data/repository.py).              *)
(*                                                                         *)
(* A JSON value is a record [t, v]: t is the Python type of the value and  *)
(* v its content.  A str is the tuple of its characters, a list the tuple  *)
(* of its elements, a dict the tuple of its [k, v] items in insertion      *)
(* order.  A pool index i of the code, counted from 0, is position i + 1   *)
(* of the tuple.                                                           *)
(***************************************************************************)
EXTENDS Integers, Sequences, FiniteSets, TLC

VARIABLES
    call,       \* the entry point this run calls
    payload,    \* decode_issues_from_payload: the payload argument
    year_page,  \* decode_issues_from_payload: the year_page argument
    pool,       \* the pool (decode_refs's argument, or extract_pool's result)
    obj,        \* decode_refs: the obj argument
    pc,         \* the position of the running call
    packed,     \* what iter_packed_issue_dicts yields for the pool
    cursor,     \* how many of the packed dictionaries the loop has taken
    stack,      \* the active calls of dec, outermost first
    ret,        \* the value the last call returned (for dec: the outermost)
    out,        \* decode_issues_from_payload: the list out
    err,        \* the exception that ended the call, or "none"
    args,       \* TitleMatcher, expand_range: the arguments of the last call
    exact_map,  \* TitleMatcher: self.exact_map
    normalized_map,  \* TitleMatcher: self.normalized_map
    queries,    \* TitleMatcher: the call each caller has in progress
    calls,      \* decode_issues_from_payload: the calls begun so far
    buckets,    \* RateLimiter: self.buckets, ip -> (tokens, last_time)
    now,        \* RateLimiter: what time.time() returns, in seconds
    granted,    \* RateLimiter: the requests let through so far, by ip
    limiter,    \* RateLimiter: the arguments it was constructed with
    db,         \* IssueRepository: the ids of the issues rows committed
    txn,        \* IssueRepository: the ids written in the open transaction
    count       \* upsert_batch: the local count

vars == <<call, payload, year_page, pool, obj, pc, packed, cursor, stack, ret, out, err,
          args, exact_map, normalized_map, queries, calls, buckets, now, granted,
          limiter, db, txn, count>>

\* What only the rate limiter touches.
limiterVars == <<buckets, now, granted, limiter>>

\* What only the repository touches.
repoVars == <<db, txn, count>>

\* What the decoder does not touch, and what the matcher and the range
\* expander do not touch.
matcherVars == <<args, exact_map, normalized_map, queries>>
decoderVars == <<payload, year_page, pool, obj, packed, cursor, stack, out>>

---------------------------------------------------------------------------
(* JSON values *)

JNull == [t |-> "null", v |-> "None"]
JBool(b) == [t |-> "bool", v |-> b]
JInt(i) == [t |-> "int", v |-> i]
JFloat(s) == [t |-> "float", v |-> s]
JStr(s) == [t |-> "str", v |-> s]
JList(s) == [t |-> "list", v |-> s]
JDict(s) == [t |-> "dict", v |-> s]
Item(key, val) == [k |-> key, v |-> val]

\* isinstance(x, bool)
isinstance_bool(x) == x.t = "bool"

\* isinstance(x, int): bool is a subclass of int in Python
isinstance_int(x) == x.t \in {"int", "bool"}

isinstance_str(x) == x.t = "str"
isinstance_list(x) == x.t = "list"
isinstance_dict(x) == x.t = "dict"

\* key in d
HasKey(d, key) == \E n \in 1..Len(d.v) : d.v[n].k = key

\* d.get(key): None when the key is absent
Get(d, key) ==
    IF HasKey(d, key)
    THEN d.v[CHOOSE n \in 1..Len(d.v) : d.v[n].k = key].v
    ELSE JNull

\* d[key] = val: an existing key keeps its place, a new key goes last
SetItem(d, key, val) ==
    IF HasKey(d, key)
    THEN JDict([n \in 1..Len(d.v) |-> IF d.v[n].k = key THEN Item(key, val) ELSE d.v[n]])
    ELSE JDict(Append(d.v, Item(key, val)))

---------------------------------------------------------------------------
(* decoder.py: decode_refs *)

\* the mutant of is_primitive: an int pool entry is not returned as it is
is_primitive_no_int(x) == x.t \in {"str", "float", "bool", "null"}

\* _is_primitive
is_primitive(x) == x.t \in {"str", "int", "float", "bool", "null"}

\* The number an int is; a bool taken as an int is 1 or 0.
IntOf(x) == IF x.t = "bool" THEN (IF x.v THEN 1 ELSE 0) ELSE x.v

\* the mutant of IsRef: the bool check is missing
IsRef_bool_too(x) == isinstance_int(x)

\* dec takes x as a pool index: it is not a bool (checked first) and is an int
IsRef(x) == ~isinstance_bool(x) /\ isinstance_int(x)

\* the mutant of OutOfBounds: index 0 is taken as out of bounds
OutOfBounds_zero_too(p, x) == IntOf(x) <= 0 \/ IntOf(x) >= Len(p)

\* x < 0 or x >= len(pool)
OutOfBounds(p, x) == IntOf(x) < 0 \/ IntOf(x) >= Len(p)

\* pool[x]
At(p, x) == p[IntOf(x) + 1]

\* A call of dec is a frame [x, acc]: its argument and the values its nested
\* calls have returned so far.
Frame(x) == [x |-> x, acc |-> <<>>]

\* The call still has a nested call of dec to make.
NeedsCall(p, f) ==
    CASE IsRef(f.x) ->
            /\ ~OutOfBounds(p, f.x)
            /\ ~is_primitive(At(p, f.x))
            /\ f.acc = <<>>
      [] isinstance_list(f.x) -> Len(f.acc) < Len(f.x.v)
      [] isinstance_dict(f.x) -> Len(f.acc) < Len(f.x.v)
      [] OTHER -> FALSE

\* The argument of that nested call.
NextArg(p, f) ==
    CASE IsRef(f.x) -> At(p, f.x)
      [] isinstance_list(f.x) -> f.x.v[Len(f.acc) + 1]
      [] OTHER -> f.x.v[Len(f.acc) + 1].v

\* the mutant of Returned: an index out of bounds is returned as it is
Returned_oob_kept(p, f) ==
    CASE IsRef(f.x) ->
            IF OutOfBounds(p, f.x) THEN f.x
            ELSE IF is_primitive(At(p, f.x)) THEN At(p, f.x)
            ELSE f.acc[1]
      [] isinstance_list(f.x) -> JList(f.acc)
      [] isinstance_dict(f.x) ->
            JDict([n \in 1..Len(f.x.v) |-> Item(f.x.v[n].k, f.acc[n])])
      [] OTHER -> f.x

\* What the call returns once it has no nested call left to make.
Returned(p, f) ==
    CASE IsRef(f.x) ->
            IF OutOfBounds(p, f.x) THEN JNull
            ELSE IF is_primitive(At(p, f.x)) THEN At(p, f.x)
            ELSE f.acc[1]
      [] isinstance_list(f.x) -> JList(f.acc)
      [] isinstance_dict(f.x) ->
            JDict([n \in 1..Len(f.x.v) |-> Item(f.x.v[n].k, f.acc[n])])
      [] OTHER -> f.x

Top == stack[Len(stack)]

\* The interpreter's recursion limit, in calls of dec.
MaxDepth == 10

\* dec calls dec
DecCall ==
    /\ pc = "dec"
    /\ NeedsCall(pool, Top)
    /\ Len(stack) < MaxDepth
    /\ stack' = Append(stack, Frame(NextArg(pool, Top)))
    /\ UNCHANGED matcherVars
    /\ UNCHANGED calls
    /\ UNCHANGED limiterVars
    /\ UNCHANGED repoVars
    /\ UNCHANGED <<call, payload, year_page, pool, obj, pc, packed, cursor, ret, out, err>>

\* dec calls dec with the interpreter's stack full: RecursionError, which
\* nothing catches
DecOverflow ==
    /\ pc = "dec"
    /\ NeedsCall(pool, Top)
    /\ Len(stack) >= MaxDepth
    /\ stack' = <<>>
    /\ err' = "RecursionError"
    /\ pc' = "raised"
    /\ UNCHANGED matcherVars
    /\ UNCHANGED calls
    /\ UNCHANGED limiterVars
    /\ UNCHANGED repoVars
    /\ UNCHANGED <<call, payload, year_page, pool, obj, packed, cursor, ret, out>>

\* a call of dec returns, to the call of dec that made it or to decode_refs's
\* caller
DecReturn ==
    /\ pc = "dec"
    /\ ~NeedsCall(pool, Top)
    /\ IF Len(stack) = 1
       THEN /\ stack' = <<>>
            /\ ret' = Returned(pool, Top)
            /\ pc' = IF call = "decode_refs" THEN "returned" ELSE "body"
       ELSE /\ stack' = [SubSeq(stack, 1, Len(stack) - 1) EXCEPT
                           ![Len(stack) - 1].acc = Append(@, Returned(pool, Top))]
            /\ UNCHANGED <<ret, pc>>
    /\ UNCHANGED matcherVars
    /\ UNCHANGED calls
    /\ UNCHANGED limiterVars
    /\ UNCHANGED repoVars
    /\ UNCHANGED <<call, payload, year_page, pool, obj, packed, cursor, out, err>>

\* decode_refs(pool, obj) is called
DecodeRefs ==
    /\ call = "decode_refs"
    /\ pc = "start"
    /\ stack' = <<Frame(obj)>>
    /\ pc' = "dec"
    /\ UNCHANGED matcherVars
    /\ UNCHANGED calls
    /\ UNCHANGED limiterVars
    /\ UNCHANGED repoVars
    /\ UNCHANGED <<call, payload, year_page, pool, obj, packed, cursor, ret, out, err>>

---------------------------------------------------------------------------
(* str methods, on tuples of characters *)

\* s has old at position n
HasAt(s, n, old) ==
    n + Len(old) - 1 <= Len(s) /\ SubSeq(s, n, n + Len(old) - 1) = old

\* s.replace(old, new), from position n on: the occurrences of old, left to
\* right and not overlapping
RECURSIVE ReplaceFrom(_, _, _, _)
ReplaceFrom(s, n, old, new) ==
    IF n > Len(s) THEN <<>>
    ELSE IF HasAt(s, n, old) THEN new \o ReplaceFrom(s, n + Len(old), old, new)
    ELSE <<s[n]>> \o ReplaceFrom(s, n + 1, old, new)

str_replace(s, old, new) == ReplaceFrom(s, 1, old, new)

---------------------------------------------------------------------------
(* normalizer.py: normalize_marvel_url *)

\* the mutant of normalize_marvel_url: the host is left as it is
normalize_marvel_url_scheme_only(url) ==
    str_replace(url, <<"h", "t", "t", "p", ":", "/", "/">>, <<"h", "t", "t", "p", "s", ":", "/", "/">>)

normalize_marvel_url(url) ==
    str_replace(str_replace(url, <<"h", "t", "t", "p", ":", "/", "/">>, <<"h", "t", "t", "p", "s", ":", "/", "/">>), <<"h", "t", "t", "p", "s", ":", "/", "/", "m", "a", "r", "v", "e", "l", ".", "c", "o", "m", "/">>, <<"h", "t", "t", "p", "s", ":", "/", "/", "w", "w", "w", ".", "m", "a", "r", "v", "e", "l", ".", "c", "o", "m", "/">>)

---------------------------------------------------------------------------
(* str and re on tuples of characters; the characters are ASCII *)

Digits == {"0", "1", "2", "3", "4", "5", "6", "7", "8", "9"}
UpperCase == <<"A", "B", "C", "D", "E", "F", "G", "H", "I", "J", "K", "L", "M", "N", "O", "P", "Q", "R", "S", "T", "U", "V", "W", "X", "Y", "Z">>
LowerCase == <<"a", "b", "c", "d", "e", "f", "g", "h", "i", "j", "k", "l", "m", "n", "o", "p", "q", "r", "s", "t", "u", "v", "w", "x", "y", "z">>

\* \s
IsSpace(c) == c \in {" ", "\t", "\n", "\r", "\f"}

\* \d
IsDigit(c) == c \in Digits

\* \w
IsWord(c) ==
    IsDigit(c) \/ c = "_" \/ \E n \in 1..Len(UpperCase) : c = UpperCase[n] \/ c = LowerCase[n]

\* s.lower()
str_lower(s) ==
    [n \in 1..Len(s) |->
        IF \E m \in 1..Len(UpperCase) : s[n] = UpperCase[m]
        THEN LowerCase[CHOOSE m \in 1..Len(UpperCase) : s[n] = UpperCase[m]]
        ELSE s[n]]

\* The position after the run of whitespace that starts at n.
SpaceRunEnd(s, n) ==
    CHOOSE m \in n..Len(s) + 1 :
        /\ \A j \in n..m - 1 : IsSpace(s[j])
        /\ m = Len(s) + 1 \/ ~IsSpace(s[m])

\* The position after the run of digits that starts at n.
DigitRunEnd(s, n) ==
    CHOOSE m \in n..Len(s) + 1 :
        /\ \A j \in n..m - 1 : IsDigit(s[j])
        /\ m = Len(s) + 1 \/ ~IsDigit(s[m])

\* re.sub(r"\s+", " ", s), from position n on
RECURSIVE CollapseFrom(_, _)
CollapseFrom(s, n) ==
    IF n > Len(s) THEN <<>>
    ELSE IF IsSpace(s[n]) THEN <<" ">> \o CollapseFrom(s, SpaceRunEnd(s, n))
    ELSE <<s[n]>> \o CollapseFrom(s, n + 1)

collapse_whitespace(s) == CollapseFrom(s, 1)

\* s.strip()
str_strip(s) ==
    IF \A n \in 1..Len(s) : IsSpace(s[n]) THEN <<>>
    ELSE SubSeq(s,
                CHOOSE a \in 1..Len(s) : ~IsSpace(s[a]) /\ \A j \in 1..a - 1 : IsSpace(s[j]),
                CHOOSE b \in 1..Len(s) : ~IsSpace(s[b]) /\ \A j \in b + 1..Len(s) : IsSpace(s[j]))

---------------------------------------------------------------------------
(* normalizer.py: normalize_title_spacing, normalize_title_for_match *)

normalize_title_spacing(title) ==
    str_strip(str_replace(collapse_whitespace(title), <<")", "#">>, <<")", " ", "#">>))

\* re.sub(r"[^\w\s#.]", " ", s)
strip_punctuation(s) ==
    [n \in 1..Len(s) |->
        IF IsWord(s[n]) \/ IsSpace(s[n]) \/ s[n] \in {"#", "."} THEN s[n] ELSE " "]

\* the mutant of lstrip_zeros: one zero is stripped
lstrip_one_zero(num) ==
    IF Len(num) > 1 /\ num[1] = "0" THEN Tail(num) ELSE num

\* num.lstrip('0') or '0'
lstrip_zeros(num) ==
    IF \A n \in 1..Len(num) : num[n] = "0" THEN <<"0">>
    ELSE SubSeq(num,
                CHOOSE a \in 1..Len(num) : num[a] # "0" /\ \A j \in 1..a - 1 : num[j] = "0",
                Len(num))

\* the mutant of normalize_issue_num: zeros are stripped with a decimal part
\* too
normalize_issue_num_always_strips(num) == <<"#">> \o lstrip_zeros(num)

\* normalize_issue_num, on group 1 of the match
normalize_issue_num(num) ==
    IF \E n \in 1..Len(num) : num[n] = "."
    THEN <<"#">> \o num
    ELSE <<"#">> \o lstrip_zeros(num)

\* The position after the match of #(\d+(?:\.\d+)?) at n; 0 with no match at n.
IssueNumEnd(s, n) ==
    IF s[n] = "#" /\ n + 1 <= Len(s) /\ IsDigit(s[n + 1])
    THEN LET m == DigitRunEnd(s, n + 1)
         IN  IF m + 1 <= Len(s) /\ s[m] = "." /\ IsDigit(s[m + 1])
             THEN DigitRunEnd(s, m + 1)
             ELSE m
    ELSE 0

\* re.sub(r"#(\d+(?:\.\d+)?)", normalize_issue_num, s), from position n on
RECURSIVE IssueNumsFrom(_, _)
IssueNumsFrom(s, n) ==
    IF n > Len(s) THEN <<>>
    ELSE IF IssueNumEnd(s, n) # 0
         THEN normalize_issue_num(SubSeq(s, n + 1, IssueNumEnd(s, n) - 1))
                  \o IssueNumsFrom(s, IssueNumEnd(s, n))
         ELSE <<s[n]>> \o IssueNumsFrom(s, n + 1)

normalize_title_for_match(title) ==
    LET spaced == normalize_title_spacing(str_lower(title))
        bare == str_replace(str_replace(spaced, <<"(">>, <<" ">>), <<")">>, <<" ">>)
        numbered == IssueNumsFrom(strip_punctuation(bare), 1)
    IN  str_strip(collapse_whitespace(numbered))

\* f(x), and then f on its own result
Normalized(fx) ==
    /\ pc \in {"start", "once"}
    /\ ret' = JStr(fx)
    /\ args' = IF pc = "start" THEN args ELSE ret
    /\ pc' = IF pc = "start" THEN "once" ELSE "twice"
    /\ UNCHANGED <<call, err, exact_map, normalized_map>>
    /\ UNCHANGED decoderVars
    /\ UNCHANGED calls
    /\ UNCHANGED limiterVars
    /\ UNCHANGED repoVars
    /\ UNCHANGED queries

\* normalize_marvel_url(url)
NormalizeMarvelUrl ==
    /\ call = "normalize_marvel_url"
    /\ Normalized(normalize_marvel_url(IF pc = "start" THEN args.v ELSE ret.v))

\* normalize_title_spacing(title)
NormalizeTitleSpacing ==
    /\ call = "normalize_title_spacing"
    /\ Normalized(normalize_title_spacing(IF pc = "start" THEN args.v ELSE ret.v))

\* normalize_title_for_match(title)
NormalizeTitleForMatch ==
    /\ call = "normalize_title_for_match"
    /\ Normalized(normalize_title_for_match(IF pc = "start" THEN args.v ELSE ret.v))

---------------------------------------------------------------------------
(* matcher.py: TitleMatcher.  A map is a dict whose keys are titles. *)

\* the mutant of BuildNormalized: a later title with the same key replaces
\* the URL
RECURSIVE BuildNormalized_last_wins(_, _)
BuildNormalized_last_wins(items, nm) ==
    IF items = <<>> THEN nm
    ELSE BuildNormalized_last_wins(Tail(items),
                                   SetItem(nm, normalize_title_for_match(Head(items).k),
                                           Head(items).v))

\* self.normalized_map after the loop of __init__ over items, from nm
RECURSIVE BuildNormalized(_, _)
BuildNormalized(items, nm) ==
    IF items = <<>> THEN nm
    ELSE LET normalized == normalize_title_for_match(Head(items).k)
         IN  BuildNormalized(Tail(items),
                             IF ~HasKey(nm, normalized)
                             THEN SetItem(nm, normalized, Head(items).v)
                             ELSE nm)

Suffixes == <<<<" ", "v", "a", "r", "i", "a", "n", "t">>,
              <<" ", "d", "i", "r", "e", "c", "t", "o", "r">>,
              <<" ", "d", "e", "l", "u", "x", "e">>,
              <<" ", "a", "n", "n", "u", "a", "l">>>>

\* for suffix in suffixes: title = title.replace(suffix, "")
RECURSIVE RemoveEach(_, _)
RemoveEach(title, suffixes) ==
    IF suffixes = <<>> THEN title
    ELSE RemoveEach(str_replace(title, Head(suffixes), <<>>), Tail(suffixes))

\* _simplify_title
simplify_title(title) == str_strip(RemoveEach(title, Suffixes))

\* the mutant of match: fuzzy is not looked at
match_always_fuzzy(em, nm, title, fuzzy) ==
    IF HasKey(em, title) THEN <<Get(em, title), JFloat("1.0")>>
    ELSE LET normalized == normalize_title_for_match(title)
             simplified == simplify_title(normalized)
         IN  IF HasKey(nm, normalized) THEN <<Get(nm, normalized), JFloat("0.9")>>
             ELSE IF HasKey(nm, simplified) THEN <<Get(nm, simplified), JFloat("0.8")>>
             ELSE <<JNull, JFloat("0.0")>>

\* the mutant of match: the simplified title is looked up with get and no
\* membership test
match_simplified_unchecked(em, nm, title, fuzzy) ==
    IF HasKey(em, title) THEN <<Get(em, title), JFloat("1.0")>>
    ELSE IF ~fuzzy THEN <<JNull, JFloat("0.0")>>
    ELSE LET normalized == normalize_title_for_match(title)
             simplified == simplify_title(normalized)
         IN  IF HasKey(nm, normalized) THEN <<Get(nm, normalized), JFloat("0.9")>>
             ELSE <<Get(nm, simplified), JFloat("0.8")>>

\* TitleMatcher.match: (matched_url, confidence_score)
match(em, nm, title, fuzzy) ==
    IF HasKey(em, title) THEN <<Get(em, title), JFloat("1.0")>>
    ELSE IF ~fuzzy THEN <<JNull, JFloat("0.0")>>
    ELSE LET normalized == normalize_title_for_match(title)
             simplified == simplify_title(normalized)
         IN  IF HasKey(nm, normalized) THEN <<Get(nm, normalized), JFloat("0.9")>>
             ELSE IF HasKey(nm, simplified) THEN <<Get(nm, simplified), JFloat("0.8")>>
             ELSE <<JNull, JFloat("0.0")>>

\* TitleMatcher(title_to_url)
NewMatcher ==
    /\ call = "TitleMatcher"
    /\ pc = "new"
    /\ exact_map' = args
    /\ normalized_map' = BuildNormalized(args.v, JDict(<<>>))
    /\ pc' = "ready"
    /\ UNCHANGED <<call, args, ret, err>>
    /\ UNCHANGED decoderVars
    /\ UNCHANGED calls
    /\ UNCHANGED limiterVars
    /\ UNCHANGED repoVars
    /\ UNCHANGED queries

\* The titles asked for: corpus titles, their zero-padded, re-cased and
\* suffixed variants, and titles of no corpus.
MatchQueries ==
    { <<"A", " ", "#", "1">>,
      <<"a", " ", "#", "1">>,
      <<"a", " ", "#", "0", "1">>,
      <<"A", " ", "#", "0", "1">>,
      <<"a", " ", "v", "a", "r", "i", "a", "n", "t", " ", "#", "1">>,
      <<"A", " ", "V", "a", "r", "i", "a", "n", "t", " ", "#", "1">>,
      <<"A", " ", "#", "1", " ", "A", "n", "n", "u", "a", "l">>,
      <<"A">>,
      <<"a", " ", "a", "n", "n", "u", "a", "l">>,
      <<"a", " ", "d", "e", "l", "u", "x", "e", " ", "d", "i", "r", "e", "c", "t", "o", "r">>,
      <<"b">>,
      <<"B", "!">>,
      <<" ", "v", "a", "r", "i", "a", "n", "t">>,
      <<>> }

\* matcher.match(title, fuzzy)
Match ==
    /\ call = "TitleMatcher"
    /\ pc \in {"ready", "matched"}
    /\ \E title \in MatchQueries, fuzzy \in BOOLEAN :
          /\ args' = [title |-> title, fuzzy |-> fuzzy]
          /\ ret' = match(exact_map, normalized_map, title, fuzzy)
    /\ pc' = "matched"
    /\ UNCHANGED <<call, err, exact_map, normalized_map>>
    /\ UNCHANGED decoderVars
    /\ UNCHANGED calls
    /\ UNCHANGED limiterVars
    /\ UNCHANGED repoVars
    /\ UNCHANGED queries

---------------------------------------------------------------------------
(* matcher.py: match and find_similar, called by several callers at once.
   A caller's call advances by the statements that read self. *)

\* sub in s
str_contains(s, sub) == \E n \in 1..Len(s) + 1 : HasAt(s, n, sub)

\* (orig_title, url)
Pair(orig_title, url) == JList(<<JStr(orig_title), url>>)

\* results after one pass of the loop of find_similar over item
SimilarStep(results, normalized, item) ==
    LET orig_normalized == normalize_title_for_match(item.k)
    IN  IF str_contains(orig_normalized, normalized) \/ str_contains(normalized, orig_normalized)
        THEN Append(results, Pair(item.k, item.v))
        ELSE results

\* results when the loop of find_similar ends, from results and items on
RECURSIVE SimilarFrom(_, _, _, _)
SimilarFrom(results, normalized, items, limit) ==
    IF items = <<>> THEN results
    ELSE IF Len(SimilarStep(results, normalized, Head(items))) >= limit
         THEN SimilarStep(results, normalized, Head(items))
         ELSE SimilarFrom(SimilarStep(results, normalized, Head(items)),
                          normalized, Tail(items), limit)

\* TitleMatcher.find_similar
find_similar(em, title, limit) ==
    JList(SimilarFrom(<<>>, normalize_title_for_match(title), em.v, limit))

\* The most callers at once.
MaxCallers == 2

Callers == 1..MaxCallers

\* The titles and limits the callers ask with.
CallerTitles == { <<"A", " ", "#", "1">>, <<"a", " ", "#", "0", "1">> }

CallerLimits == {0, 1, 2}

Idle == [op |-> "idle", at |-> "idle", title |-> <<>>, opt |-> JNull, i |-> 0, result |-> JNull]

\* caller c calls matcher.match(title, fuzzy)
CallMatch(c) ==
    /\ call = "TitleMatcher"
    /\ pc = "ready"
    /\ queries[c].op = "idle"
    /\ \E title \in CallerTitles, fuzzy \in BOOLEAN :
          queries' = [queries EXCEPT ![c] =
              [op |-> "match", at |-> "exact", title |-> title, opt |-> JBool(fuzzy),
               i |-> 0, result |-> JNull]]
    /\ UNCHANGED <<call, pc, args, ret, err, exact_map, normalized_map>>
    /\ UNCHANGED decoderVars
    /\ UNCHANGED calls
    /\ UNCHANGED limiterVars
    /\ UNCHANGED repoVars

\* match, up to "if not fuzzy"
MatchExact(c) ==
    /\ queries[c].op = "match"
    /\ queries[c].at = "exact"
    /\ queries' = [queries EXCEPT ![c] =
          IF HasKey(exact_map, queries[c].title)
          THEN [@ EXCEPT !.at = "done",
                         !.result = <<Get(exact_map, queries[c].title), JFloat("1.0")>>]
          ELSE IF ~queries[c].opt.v
               THEN [@ EXCEPT !.at = "done", !.result = <<JNull, JFloat("0.0")>>]
               ELSE [@ EXCEPT !.at = "fuzzy"]]
    /\ UNCHANGED <<call, pc, args, ret, err, exact_map, normalized_map>>
    /\ UNCHANGED decoderVars
    /\ UNCHANGED calls
    /\ UNCHANGED limiterVars
    /\ UNCHANGED repoVars

\* the mutant of MatchFuzzy: a match is remembered under the title asked for
MatchFuzzy_remembering(c) ==
    /\ queries[c].op = "match"
    /\ queries[c].at = "fuzzy"
    /\ LET hit == match(exact_map, normalized_map, queries[c].title, TRUE)
       IN  /\ queries' = [queries EXCEPT ![c] = [@ EXCEPT !.at = "done", !.result = hit]]
           /\ normalized_map' = IF hit[1] # JNull
                                THEN SetItem(normalized_map, queries[c].title, hit[1])
                                ELSE normalized_map
    /\ UNCHANGED <<call, pc, args, ret, err, exact_map>>
    /\ UNCHANGED decoderVars
    /\ UNCHANGED calls
    /\ UNCHANGED limiterVars
    /\ UNCHANGED repoVars

\* match, from "normalized = ..." on
MatchFuzzy(c) ==
    /\ queries[c].op = "match"
    /\ queries[c].at = "fuzzy"
    /\ LET normalized == normalize_title_for_match(queries[c].title)
           simplified == simplify_title(normalized)
       IN  queries' = [queries EXCEPT ![c] =
               [@ EXCEPT !.at = "done",
                         !.result =
                             IF HasKey(normalized_map, normalized)
                             THEN <<Get(normalized_map, normalized), JFloat("0.9")>>
                             ELSE IF HasKey(normalized_map, simplified)
                                  THEN <<Get(normalized_map, simplified), JFloat("0.8")>>
                                  ELSE <<JNull, JFloat("0.0")>>]]
    /\ UNCHANGED <<call, pc, args, ret, err, exact_map, normalized_map>>
    /\ UNCHANGED decoderVars
    /\ UNCHANGED calls
    /\ UNCHANGED limiterVars
    /\ UNCHANGED repoVars

\* caller c calls matcher.find_similar(title, limit); results = []
CallFindSimilar(c) ==
    /\ call = "TitleMatcher"
    /\ pc = "ready"
    /\ queries[c].op = "idle"
    /\ \E title \in CallerTitles, limit \in CallerLimits :
          queries' = [queries EXCEPT ![c] =
              [op |-> "find_similar",
               at |-> IF Len(exact_map.v) = 0 THEN "done" ELSE "loop",
               title |-> title, opt |-> JInt(limit), i |-> 0, result |-> JList(<<>>)]]
    /\ UNCHANGED <<call, pc, args, ret, err, exact_map, normalized_map>>
    /\ UNCHANGED decoderVars
    /\ UNCHANGED calls
    /\ UNCHANGED limiterVars
    /\ UNCHANGED repoVars

\* one pass of the loop of find_similar over self.exact_map.items()
FindSimilarLoop(c) ==
    /\ queries[c].op = "find_similar"
    /\ queries[c].at = "loop"
    /\ LET results == SimilarStep(queries[c].result.v,
                                  normalize_title_for_match(queries[c].title),
                                  exact_map.v[queries[c].i + 1])
       IN  queries' = [queries EXCEPT ![c] =
               [@ EXCEPT !.result = JList(results),
                         !.i = @ + 1,
                         !.at = IF Len(results) >= queries[c].opt.v
                                   \/ queries[c].i + 1 = Len(exact_map.v)
                                THEN "done" ELSE "loop"]]
    /\ UNCHANGED <<call, pc, args, ret, err, exact_map, normalized_map>>
    /\ UNCHANGED decoderVars
    /\ UNCHANGED calls
    /\ UNCHANGED limiterVars
    /\ UNCHANGED repoVars

\* the call of caller c returns its result
ReturnQuery(c) ==
    /\ queries[c].at = "done"
    /\ queries' = [queries EXCEPT ![c] = Idle]
    /\ UNCHANGED <<call, pc, args, ret, err, exact_map, normalized_map>>
    /\ UNCHANGED decoderVars
    /\ UNCHANGED calls
    /\ UNCHANGED limiterVars
    /\ UNCHANGED repoVars

---------------------------------------------------------------------------
(* parser.py: expand_range *)

DigitChars == <<"0", "1", "2", "3", "4", "5", "6", "7", "8", "9">>

\* s.split(sep, 1), sep one character
str_split_once(s, sep) ==
    IF \E n \in 1..Len(s) : s[n] = sep
    THEN LET n == CHOOSE n \in 1..Len(s) : s[n] = sep /\ \A j \in 1..n - 1 : s[j] # sep
         IN  <<SubSeq(s, 1, n - 1), SubSeq(s, n + 1, Len(s))>>
    ELSE <<s>>

\* The number a run of decimal digits writes.
RECURSIVE DecimalValue(_)
DecimalValue(ds) ==
    IF ds = <<>> THEN 0
    ELSE 10 * DecimalValue(SubSeq(ds, 1, Len(ds) - 1))
             + (CHOOSE d \in 0..9 : DigitChars[d + 1] = ds[Len(ds)])

\* int(s): whitespace around, one sign, digits with single underscores
\* between them; anything else raises ValueError
py_int(s) ==
    LET t == str_strip(s)
        signed == t # <<>> /\ t[1] \in {"+", "-"}
        body == IF signed THEN Tail(t) ELSE t
        valid == /\ body # <<>>
                 /\ IsDigit(body[1]) /\ IsDigit(body[Len(body)])
                 /\ \A n \in 1..Len(body) : IsDigit(body[n]) \/ body[n] = "_"
                 /\ \A n \in 1..Len(body) - 1 : ~(body[n] = "_" /\ body[n + 1] = "_")
    IN  IF valid
        THEN [raised |-> "none",
              value |-> (IF t[1] = "-" THEN -1 ELSE 1) * DecimalValue(SelectSeq(body, IsDigit))]
        ELSE [raised |-> "ValueError", value |-> 0]

\* f"{i}"
RECURSIVE IntToStr(_)
IntToStr(i) ==
    IF i < 0 THEN <<"-">> \o IntToStr(-i)
    ELSE IF i < 10 THEN <<DigitChars[i + 1]>>
    ELSE IntToStr(i \div 10) \o <<DigitChars[(i % 10) + 1]>>

\* The ends of group 1 in the ways ^(.+#)\d+ matches at the start of s: the
\* dot takes no line break.
SeriesPrefixEnds(s) ==
    { k \in 2..Len(s) - 1 :
        /\ s[k] = "#"
        /\ IsDigit(s[k + 1])
        /\ \A j \in 1..k - 1 : s[j] # "\n" }

\* match.group(1); .+ is greedy
series_prefix(s) ==
    SubSeq(s, 1, CHOOSE k \in SeriesPrefixEnds(s) : \A j \in SeriesPrefixEnds(s) : j <= k)

\* range(start, stop)
py_range(start, stop) ==
    [n \in 1..(IF stop > start THEN stop - start ELSE 0) |-> start + n - 1]

\* the mutant of expand_range: the end of the range is left out
expand_range_end_excluded(base_title, range_spec) ==
    LET parts == str_split_once(range_spec, "-")
    IN  IF Len(parts) # 2 THEN JList(<<JStr(base_title)>>)
        ELSE IF py_int(parts[1]).raised # "none" \/ py_int(parts[2]).raised # "none"
             THEN JList(<<JStr(base_title)>>)
        ELSE IF SeriesPrefixEnds(base_title) = {} THEN JList(<<JStr(base_title)>>)
        ELSE LET r == py_range(py_int(parts[1]).value, py_int(parts[2]).value)
             IN  JList([n \in 1..Len(r) |->
                           JStr(series_prefix(base_title) \o IntToStr(r[n]))])

\* the mutant of expand_range: a title the pattern does not match is its own
\* prefix
expand_range_unanchored(base_title, range_spec) ==
    LET parts == str_split_once(range_spec, "-")
    IN  IF Len(parts) # 2 THEN JList(<<JStr(base_title)>>)
        ELSE IF py_int(parts[1]).raised # "none" \/ py_int(parts[2]).raised # "none"
             THEN JList(<<JStr(base_title)>>)
        ELSE LET r == py_range(py_int(parts[1]).value, py_int(parts[2]).value + 1)
                 prefix == IF SeriesPrefixEnds(base_title) = {} THEN base_title
                           ELSE series_prefix(base_title)
             IN  JList([n \in 1..Len(r) |-> JStr(prefix \o IntToStr(r[n]))])

expand_range(base_title, range_spec) ==
    LET parts == str_split_once(range_spec, "-")
    IN  IF Len(parts) # 2 THEN JList(<<JStr(base_title)>>)
        ELSE IF py_int(parts[1]).raised # "none" \/ py_int(parts[2]).raised # "none"
             THEN JList(<<JStr(base_title)>>)
        ELSE IF SeriesPrefixEnds(base_title) = {} THEN JList(<<JStr(base_title)>>)
        ELSE LET r == py_range(py_int(parts[1]).value, py_int(parts[2]).value + 1)
             IN  JList([n \in 1..Len(r) |->
                           JStr(series_prefix(base_title) \o IntToStr(r[n]))])

\* expand_range(base_title, range_spec)
ExpandRange ==
    /\ call = "expand_range"
    /\ pc = "start"
    /\ ret' = expand_range(args.base_title, args.range_spec)
    /\ pc' = "returned"
    /\ UNCHANGED <<call, args, err, exact_map, normalized_map>>
    /\ UNCHANGED decoderVars
    /\ UNCHANGED calls
    /\ UNCHANGED limiterVars
    /\ UNCHANGED repoVars
    /\ UNCHANGED queries

---------------------------------------------------------------------------
(* parser.py: parse_json, parse_yaml.  The document is the loaded data. *)

\* d.get(key, default)
GetOr(d, key, default) == IF HasKey(d, key) THEN Get(d, key) ELSE default

ReadingListItem(title, note) == [title |-> title, note |-> note]

\* not x, for None and strings
FalsyStr(x) == x.t = "null" \/ (isinstance_str(x) /\ x.v = <<>>)

\* The items one dict entry of the list appends.
EntryItems(item) ==
    LET title == GetOr(item, "title", JStr(<<>>))
        note == GetOr(item, "note", JStr(<<>>))
        range_spec == Get(item, "range")
    IN  IF ~FalsyStr(range_spec)
        THEN LET expanded == expand_range(title.v, range_spec.v).v
             IN  [n \in 1..Len(expanded) |-> ReadingListItem(expanded[n].v, note.v)]
        ELSE <<ReadingListItem(title.v, note.v)>>

\* items after the loop of parse_json over entries
RECURSIVE JsonItems(_)
JsonItems(entries) ==
    IF entries = <<>> THEN <<>>
    ELSE EntryItems(Head(entries)) \o JsonItems(Tail(entries))

\* items after the loop of parse_yaml over entries
RECURSIVE YamlItems(_)
YamlItems(entries) ==
    IF entries = <<>> THEN <<>>
    ELSE (IF isinstance_str(Head(entries)) THEN <<ReadingListItem(Head(entries).v, <<>>)>>
          ELSE IF isinstance_dict(Head(entries)) THEN EntryItems(Head(entries))
          ELSE <<>>)
         \o YamlItems(Tail(entries))

\* parse_json(path), from the loaded data on: an entry that is no dict has
\* no get
ParseJson ==
    /\ call = "parse_json"
    /\ pc = "start"
    /\ LET entries == GetOr(args, "items", JList(<<>>)).v
       IN  IF \E n \in 1..Len(entries) : ~isinstance_dict(entries[n])
           THEN /\ err' = "AttributeError"
                /\ pc' = "raised"
                /\ ret' = ret
           ELSE /\ ret' = JList(JsonItems(entries))
                /\ pc' = "returned"
                /\ err' = err
    /\ UNCHANGED <<call, args, exact_map, normalized_map>>
    /\ UNCHANGED decoderVars
    /\ UNCHANGED calls
    /\ UNCHANGED limiterVars
    /\ UNCHANGED repoVars
    /\ UNCHANGED queries

\* parse_yaml(path), from the loaded data on
ParseYaml ==
    /\ call = "parse_yaml"
    /\ pc = "start"
    /\ ret' = JList(YamlItems(GetOr(args, "items", JList(<<>>)).v))
    /\ pc' = "returned"
    /\ UNCHANGED <<call, args, err, exact_map, normalized_map>>
    /\ UNCHANGED decoderVars
    /\ UNCHANGED calls
    /\ UNCHANGED limiterVars
    /\ UNCHANGED repoVars
    /\ UNCHANGED queries

---------------------------------------------------------------------------
(* decoder.py: extract_pool, iter_packed_issue_dicts,
   decode_issues_from_payload *)

\* contains dicts with detailUrl as int
looks_like_pool(x) ==
    \E n \in 1..Len(x.v) :
        /\ isinstance_dict(x.v[n])
        /\ HasKey(x.v[n], "detailUrl")
        /\ isinstance_int(Get(x.v[n], "detailUrl"))

\* The values of a list or dict, in iteration order.
Values(x) ==
    IF isinstance_list(x) THEN x.v ELSE [n \in 1..Len(x.v) |-> x.v[n].v]

\* walk(x), from the values b of best and best_len: their values after it
RECURSIVE walk(_, _)
RECURSIVE walk_each(_, _)
walk(x, b) ==
    IF isinstance_list(x)
    THEN walk_each(x.v,
                   IF looks_like_pool(x) /\ Len(x.v) > b.best_len
                   THEN [best |-> x, best_len |-> Len(x.v)]
                   ELSE b)
    ELSE IF isinstance_dict(x) THEN walk_each(Values(x), b)
    ELSE b

walk_each(s, b) ==
    IF s = <<>> THEN b ELSE walk_each(Tail(s), walk(Head(s), b))

\* not x, for None and lists
Falsy(x) == x.t = "null" \/ (isinstance_list(x) /\ x.v = <<>>)

\* extract_pool(payload): the list returned, or raised
extract_pool(p) ==
    LET nodes == Get(p, "nodes")
        primary ==
            /\ isinstance_list(nodes)
            /\ Len(nodes.v) >= 3
            /\ isinstance_dict(nodes.v[3])
            /\ isinstance_list(Get(nodes.v[3], "data"))
        found == walk(p, [best |-> JNull, best_len |-> 0])
    IN  IF primary THEN [raised |-> "none", value |-> Get(nodes.v[3], "data")]
        ELSE IF Falsy(found.best) THEN [raised |-> "ValueError", value |-> JNull]
        ELSE [raised |-> "none", value |-> found.best]

\* the test of iter_packed_issue_dicts
IsPackedIssue(it) ==
    /\ isinstance_dict(it)
    /\ HasKey(it, "detailUrl")
    /\ HasKey(it, "title")
    /\ isinstance_int(Get(it, "detailUrl"))
    /\ isinstance_int(Get(it, "title"))

\* list(iter_packed_issue_dicts(pool))
iter_packed_issue_dicts(p) == SelectSeq(p, IsPackedIssue)

\* the mutant of ExtractPool: out is not made anew
ExtractPool_out_kept ==
    /\ call = "decode_issues_from_payload"
    /\ pc = "start"
    /\ LET r == extract_pool(payload)
       IN  IF r.raised # "none"
           THEN /\ err' = r.raised
                /\ pc' = "raised"
                /\ UNCHANGED <<pool, packed>>
           ELSE /\ pool' = r.value.v
                /\ packed' = iter_packed_issue_dicts(r.value.v)
                /\ pc' = "loop"
                /\ err' = err
    /\ UNCHANGED matcherVars
    /\ UNCHANGED calls
    /\ UNCHANGED limiterVars
    /\ UNCHANGED repoVars
    /\ UNCHANGED <<call, payload, year_page, obj, cursor, stack, ret, out>>

\* pool = extract_pool(payload); out = []; the generator is created
ExtractPool ==
    /\ call = "decode_issues_from_payload"
    /\ pc = "start"
    /\ LET r == extract_pool(payload)
       IN  IF r.raised # "none"
           THEN /\ err' = r.raised
                /\ pc' = "raised"
                /\ UNCHANGED <<pool, packed, out>>
           ELSE /\ pool' = r.value.v
                /\ packed' = iter_packed_issue_dicts(r.value.v)
                /\ out' = <<>>
                /\ pc' = "loop"
                /\ err' = err
    /\ UNCHANGED matcherVars
    /\ UNCHANGED calls
    /\ UNCHANGED limiterVars
    /\ UNCHANGED repoVars
    /\ UNCHANGED <<call, payload, year_page, obj, cursor, stack, ret>>

\* for packed in iter_packed_issue_dicts(pool): decoded = decode_refs(pool, packed)
NextPacked ==
    /\ pc = "loop"
    /\ cursor < Len(packed)
    /\ cursor' = cursor + 1
    /\ stack' = <<Frame(packed[cursor + 1])>>
    /\ pc' = "dec"
    /\ UNCHANGED matcherVars
    /\ UNCHANGED calls
    /\ UNCHANGED limiterVars
    /\ UNCHANGED repoVars
    /\ UNCHANGED <<call, payload, year_page, pool, obj, packed, ret, out, err>>

\* the generator is exhausted: return out
ReturnOut ==
    /\ pc = "loop"
    /\ cursor >= Len(packed)
    /\ pc' = "returned"
    /\ UNCHANGED matcherVars
    /\ UNCHANGED calls
    /\ UNCHANGED limiterVars
    /\ UNCHANGED repoVars
    /\ UNCHANGED <<call, payload, year_page, pool, obj, packed, cursor, stack, ret, out, err>>

\* The loop body reaches out.append(decoded): neither continue is taken
Keeps(decoded) ==
    /\ isinstance_dict(decoded)
    /\ isinstance_str(Get(decoded, "title"))
    /\ isinstance_str(Get(decoded, "detailUrl"))

\* The record appended for decoded
Record(decoded, yp) ==
    LET d == SetItem(decoded, "detailUrl",
                     JStr(normalize_marvel_url(Get(decoded, "detailUrl").v)))
    IN  IF yp # JNull THEN SetItem(d, "_year_page", yp) ELSE d

\* the rest of the loop body, from decode_refs's return on
LoopBody ==
    /\ pc = "body"
    /\ out' = IF Keeps(ret) THEN Append(out, Record(ret, year_page)) ELSE out
    /\ pc' = "loop"
    /\ UNCHANGED matcherVars
    /\ UNCHANGED calls
    /\ UNCHANGED limiterVars
    /\ UNCHANGED repoVars
    /\ UNCHANGED <<call, payload, year_page, pool, obj, packed, cursor, stack, ret, err>>

---------------------------------------------------------------------------
(* decode_refs on its own: the pools and objects of the runs *)

\* The longest pool.
MaxPoolLen == 3

SeqsUpTo(S, n) == UNION {[1..k -> S] : k \in 0..n}

\* An index no pool of the runs has.
Beyond == JInt(MaxPoolLen + 4)

RefEntries ==
    { JStr(<<"a">>), JInt(0), JInt(1), JInt(12345), JBool(TRUE), JNull,
      JFloat("3.14"),
      JList(<<JInt(0), JBool(TRUE)>>),
      JDict(<<Item("k", JInt(1))>>) }

RefObjs ==
    { JInt(-1), JInt(0), JInt(1), JInt(2), Beyond,
      JBool(TRUE), JBool(FALSE), JNull, JFloat("3.14"), JStr(<<"a">>),
      JList(<<Beyond, JInt(0), JBool(FALSE), JNull>>),
      JList(<<JList(<<JInt(-1), JBool(TRUE)>>), JStr(<<"b">>)>>),
      JDict(<<Item("o", JInt(-1)), Item("s", JStr(<<"b">>)),
              Item("f", JFloat("3.14")), Item("r", JInt(1))>>) }

InitRefs ==
    /\ call = "decode_refs"
    /\ pool \in SeqsUpTo(RefEntries, MaxPoolLen)
    /\ obj \in RefObjs
    /\ payload = JNull
    /\ year_page = JNull
    /\ pc = "start"
    /\ packed = <<>>
    /\ cursor = 0
    /\ stack = <<>>
    /\ ret = JNull
    /\ out = <<>>
    /\ err = "none"
    /\ args = JNull
    /\ exact_map = JNull
    /\ normalized_map = JNull
    /\ queries = <<>>
    /\ calls = 1
    /\ buckets = <<>>
    /\ now = 0
    /\ granted = <<>>
    /\ limiter = <<>>
    /\ db = {}
    /\ txn = {}
    /\ count = 0

NextRefs == DecodeRefs \/ DecCall \/ DecOverflow \/ DecReturn

SpecRefs == InitRefs /\ [][NextRefs]_vars

---------------------------------------------------------------------------
(* decode_issues_from_payload: the payloads of the runs *)

Url == JStr(<<"h", "t", "t", "p", ":", "/", "/", "m", "a", "r", "v", "e", "l", ".", "c", "o", "m", "/", "c">>)
Num == JInt(MaxPoolLen + 4)

\* A URL of no host.
Relative == JStr(<<"/", "c">>)

Packed(title, detail) == JDict(<<Item("title", title), Item("detailUrl", detail)>>)

\* Pool entries: two strings, a number, and packed issues whose fields are the
\* indices 0, 1 and 2.
IssueEntries ==
    { Url, Relative, Num,
      Packed(JInt(0), JInt(0)),
      Packed(JInt(0), JInt(1)),
      JDict(<<Item("id", JInt(2)), Item("title", JInt(0)), Item("detailUrl", JInt(0))>>) }

\* One raw value of each JSON type.
RawValues ==
    { JInt(0), JBool(TRUE), JStr(<<"x">>), JFloat("1.5"), JNull, JList(<<>>), JDict(<<>>) }

\* Dicts with every pair of raw types under title and detailUrl, and dicts
\* that lack one of the keys or both.
ShapeEntries ==
    {Packed(a, b) : a \in RawValues, b \in RawValues}
    \cup { JDict(<<Item("detailUrl", JInt(0))>>),
           JDict(<<Item("title", JInt(0))>>),
           JDict(<<Item("other", JInt(0))>>) }

\* A pool whose one entry has boolean title and detailUrl and refers to
\* itself.
BooleanCycle ==
    <<JDict(<<Item("id", JInt(0)), Item("title", JBool(TRUE)),
              Item("detailUrl", JBool(TRUE))>>)>>

IssuePools ==
    SeqsUpTo(IssueEntries, MaxPoolLen) \cup {<<Url, d>> : d \in ShapeEntries}
    \cup {BooleanCycle}

Skip == JDict(<<Item("type", JStr(<<"s", "k", "i", "p">>))>>)
OneCandidate == JList(<<JDict(<<Item("detailUrl", JInt(0))>>), JNull>>)

\* The payloads: the pool at nodes[2].data, the pool elsewhere with the
\* primary location absent or malformed, and a short or empty array at
\* nodes[2].data with a longer candidate elsewhere.
Payloads ==
    {JDict(<<Item("type", JStr(<<"d", "a", "t", "a">>)),
             Item("nodes", JList(<<Skip, Skip, JDict(<<Item("data", JList(p))>>)>>))>>) :
        p \in IssuePools}
    \cup {JDict(<<Item("nodes", JList(<<Skip, JDict(<<Item("data", JList(p))>>)>>))>>) :
        p \in IssuePools}
    \cup {JDict(<<Item("something", JDict(<<Item("else", JList(p))>>))>>) :
        p \in IssuePools}
    \cup {JDict(<<Item("nodes", JStr(<<"s", "k", "i", "p">>)),
                  Item("a", JList(<<JDict(<<Item("detailUrl", JInt(0))>>), JList(p)>>))>>) :
        p \in IssuePools}
    \cup {JDict(<<Item("nodes", JList(<<Skip, Skip, JDict(<<Item("data", JNull)>>)>>)),
                  Item("a", JList(p)), Item("b", OneCandidate)>>) :
        p \in IssuePools}
    \cup {JDict(<<Item("nodes", JList(<<Skip, Skip, JDict(<<Item("data", JList(p))>>)>>)),
                  Item("b", OneCandidate)>>) :
        p \in SeqsUpTo(IssueEntries, 1)}
    \cup {JDict(<<>>)}

InitDecode ==
    /\ call = "decode_issues_from_payload"
    /\ payload \in Payloads
    /\ year_page \in {JNull, JInt(2022)}
    /\ pool = <<>>
    /\ obj = JNull
    /\ pc = "start"
    /\ packed = <<>>
    /\ cursor = 0
    /\ stack = <<>>
    /\ ret = JNull
    /\ out = <<>>
    /\ err = "none"
    /\ args = JNull
    /\ exact_map = JNull
    /\ normalized_map = JNull
    /\ queries = <<>>
    /\ calls = 1
    /\ buckets = <<>>
    /\ now = 0
    /\ granted = <<>>
    /\ limiter = <<>>
    /\ db = {}
    /\ txn = {}
    /\ count = 0

NextDecode ==
    ExtractPool \/ NextPacked \/ ReturnOut \/ DecCall \/ DecOverflow \/ DecReturn \/ LoopBody

SpecDecode == InitDecode /\ [][NextDecode]_vars

---------------------------------------------------------------------------
(* decode_issues_from_payload, called again and again: the payloads of the
   runs *)

\* The most calls of one run.
MaxCalls == 2

AtData(p) ==
    JDict(<<Item("nodes", JList(<<Skip, Skip, JDict(<<Item("data", JList(p))>>)>>))>>)

\* Payloads with one record, with two, with a dropped candidate, with none,
\* with a candidate that refers to itself, and with no pool.
ManyPayloads ==
    { AtData(<<Url, Packed(JInt(0), JInt(0))>>),
      AtData(<<Relative, Url, Packed(JInt(0), JInt(1)),
               JDict(<<Item("id", JInt(2)), Item("title", JInt(1)), Item("detailUrl", JInt(1))>>)>>),
      AtData(<<Url, Num, Packed(JInt(0), JInt(1)), Packed(JInt(0), JInt(0))>>),
      AtData(<<Url>>),
      AtData(<<Packed(JInt(0), JInt(0))>>),
      JDict(<<>>) }

\* decode_issues_from_payload is called again, with its own arguments; the
\* locals of the call that ended are gone with its frame, and out is left
\* to the assignment that makes it
DecodeAgain ==
    /\ call = "decode_issues_from_payload"
    /\ pc \in {"returned", "raised"}
    /\ calls < MaxCalls
    /\ calls' = calls + 1
    /\ payload' \in ManyPayloads
    /\ year_page' \in {JNull, JInt(2022)}
    /\ pool' = <<>>
    /\ packed' = <<>>
    /\ cursor' = 0
    /\ stack' = <<>>
    /\ ret' = JNull
    /\ err' = "none"
    /\ pc' = "start"
    /\ UNCHANGED <<call, obj, out>>
    /\ UNCHANGED matcherVars
    /\ UNCHANGED limiterVars
    /\ UNCHANGED repoVars

InitDecodeMany ==
    /\ call = "decode_issues_from_payload"
    /\ payload \in ManyPayloads
    /\ year_page \in {JNull, JInt(2022)}
    /\ pool = <<>>
    /\ obj = JNull
    /\ pc = "start"
    /\ packed = <<>>
    /\ cursor = 0
    /\ stack = <<>>
    /\ ret = JNull
    /\ out = <<>>
    /\ err = "none"
    /\ args = JNull
    /\ exact_map = JNull
    /\ normalized_map = JNull
    /\ queries = <<>>
    /\ calls = 1
    /\ buckets = <<>>
    /\ now = 0
    /\ granted = <<>>
    /\ limiter = <<>>
    /\ db = {}
    /\ txn = {}
    /\ count = 0

NextDecodeMany == NextDecode \/ DecodeAgain

SpecDecodeMany == InitDecodeMany /\ [][NextDecodeMany]_vars

---------------------------------------------------------------------------
(* TitleMatcher: the corpora of the runs *)

\* The most titles of a corpus.
MaxCorpus == 2

CorpusTitles ==
    { <<"A", " ", "#", "1">>,
      <<"a", " ", "#", "1">>,
      <<"a", " ", "#", "0", "1">>,
      <<"a", " ", "v", "a", "r", "i", "a", "n", "t", " ", "#", "1">>,
      <<"A">>,
      <<"b">> }

CorpusUrls == {<<"u">>, <<"v">>}

\* title_to_url: distinct titles, in insertion order
Corpora ==
    { JDict(c) : c \in
        { s \in SeqsUpTo({Item(t, JStr(u)) : t \in CorpusTitles, u \in CorpusUrls}, MaxCorpus) :
            \A m, n \in 1..Len(s) : s[m].k = s[n].k => m = n } }

InitMatch ==
    /\ call = "TitleMatcher"
    /\ args \in Corpora
    /\ exact_map = JNull
    /\ normalized_map = JNull
    /\ queries = <<>>
    /\ calls = 1
    /\ buckets = <<>>
    /\ now = 0
    /\ granted = <<>>
    /\ limiter = <<>>
    /\ db = {}
    /\ txn = {}
    /\ count = 0
    /\ pc = "new"
    /\ ret = JNull
    /\ err = "none"
    /\ payload = JNull
    /\ year_page = JNull
    /\ pool = <<>>
    /\ obj = JNull
    /\ packed = <<>>
    /\ cursor = 0
    /\ stack = <<>>
    /\ out = <<>>

NextMatch == NewMatcher \/ Match

SpecMatch == InitMatch /\ [][NextMatch]_vars

---------------------------------------------------------------------------
(* TitleMatcher with several callers: the corpora of the runs *)

\* Corpora of the titles the callers ask with.
SharedCorpora ==
    {c \in Corpora : \A n \in 1..Len(c.v) : c.v[n].k \in CallerTitles /\ c.v[n].v = JStr(<<"u">>)}

InitQueries ==
    /\ call = "TitleMatcher"
    /\ args \in SharedCorpora
    /\ exact_map = JNull
    /\ normalized_map = JNull
    /\ queries = [c \in Callers |-> Idle]
    /\ calls = 1
    /\ buckets = <<>>
    /\ now = 0
    /\ granted = <<>>
    /\ limiter = <<>>
    /\ db = {}
    /\ txn = {}
    /\ count = 0
    /\ pc = "new"
    /\ ret = JNull
    /\ err = "none"
    /\ payload = JNull
    /\ year_page = JNull
    /\ pool = <<>>
    /\ obj = JNull
    /\ packed = <<>>
    /\ cursor = 0
    /\ stack = <<>>
    /\ out = <<>>

NextQueries ==
    \/ NewMatcher
    \/ \E c \in Callers :
          \/ CallMatch(c)
          \/ MatchExact(c)
          \/ MatchFuzzy(c)
          \/ CallFindSimilar(c)
          \/ FindSimilarLoop(c)
          \/ ReturnQuery(c)

SpecQueries == InitQueries /\ [][NextQueries]_vars

---------------------------------------------------------------------------
(* expand_range: the titles and range specs of the runs *)

\* The longest base title made of TitleChars.
MaxTitleLen == 3

TitleChars == {"a", "#", "1", "\n"}

BaseTitles ==
    SeqsUpTo(TitleChars, MaxTitleLen)
        \cup { <<"A", "v", "e", "n", "g", "e", "r", "s", " ", "(", "2", "0", "1", "2", ")", " ", "#", "1">>,
               <<"X", " ", "#", "1", " ", "o", "f", " ", "#", "x">>,
               <<"a", " ", "#", "0", "1", ".", "5">>,
               <<"a", "#", "1", " ", "#", "2">> }

\* What stands on either side of the dash.
RangeParts ==
    { <<>>, <<"1">>, <<"3">>, <<"0", "2">>, <<" ", "2", " ">>, <<"+", "2">>,
      <<"1", "_", "0">>, <<"x">>, <<"1", "x">>, <<"-", "1">> }

RangeSpecs ==
    RangeParts \cup {a \o <<"-">> \o b : a, b \in RangeParts}

InitRange ==
    /\ call = "expand_range"
    /\ args \in [base_title : BaseTitles, range_spec : RangeSpecs]
    /\ exact_map = JNull
    /\ normalized_map = JNull
    /\ queries = <<>>
    /\ calls = 1
    /\ buckets = <<>>
    /\ now = 0
    /\ granted = <<>>
    /\ limiter = <<>>
    /\ db = {}
    /\ txn = {}
    /\ count = 0
    /\ pc = "start"
    /\ ret = JNull
    /\ err = "none"
    /\ payload = JNull
    /\ year_page = JNull
    /\ pool = <<>>
    /\ obj = JNull
    /\ packed = <<>>
    /\ cursor = 0
    /\ stack = <<>>
    /\ out = <<>>

NextRange == ExpandRange

SpecRange == InitRange /\ [][NextRange]_vars

---------------------------------------------------------------------------
(* parse_json, parse_yaml: the documents of the runs *)

\* The most entries of a document.
MaxItems == 2

EntryTitles == {<<"a", "#", "1">>, <<"b">>}

EntryNotes == {<<"n">>}

EntryRanges == {<<"1", "-", "2">>, <<"2", "-", "1">>, <<"x">>, <<>>}

\* {"title": t}, with "note" and "range" or without, and the plain string
\* and number entries a YAML list may hold.
Entries ==
    {JDict(<<Item("title", JStr(t))>>) : t \in EntryTitles}
        \cup {JDict(<<Item("title", JStr(t)), Item("note", JStr(n))>>) :
                 t \in EntryTitles, n \in EntryNotes}
        \cup {JDict(<<Item("title", JStr(t)), Item("range", JStr(r))>>) :
                 t \in EntryTitles, r \in EntryRanges}
        \cup {JDict(<<Item("title", JStr(t)), Item("range", JStr(r)), Item("note", JStr(n))>>) :
                 t \in EntryTitles, r \in EntryRanges, n \in EntryNotes}
        \cup {JDict(<<Item("note", JStr(n))>>) : n \in EntryNotes}
        \cup {JStr(<<"b">>), JInt(1)}

Documents ==
    {JDict(<<Item("name", JStr(<<"l">>)), Item("items", JList(es))>>) :
        es \in SeqsUpTo(Entries, MaxItems)}
    \cup {JDict(<<Item("name", JStr(<<"l">>))>>)}

InitParse ==
    /\ call \in {"parse_json", "parse_yaml"}
    /\ args \in Documents
    /\ exact_map = JNull
    /\ normalized_map = JNull
    /\ queries = <<>>
    /\ calls = 1
    /\ buckets = <<>>
    /\ now = 0
    /\ granted = <<>>
    /\ limiter = <<>>
    /\ db = {}
    /\ txn = {}
    /\ count = 0
    /\ pc = "start"
    /\ ret = JNull
    /\ err = "none"
    /\ payload = JNull
    /\ year_page = JNull
    /\ pool = <<>>
    /\ obj = JNull
    /\ packed = <<>>
    /\ cursor = 0
    /\ stack = <<>>
    /\ out = <<>>

NextParse == ParseJson \/ ParseYaml

SpecParse == InitParse /\ [][NextParse]_vars

---------------------------------------------------------------------------
(* normalizer.py: the strings of the runs *)

\* The most pieces of a URL.
MaxUrlParts == 3

UrlParts ==
    { <<"h", "t", "t", "p", ":", "/", "/">>,
      <<"h", "t", "t", "p", "s", ":", "/", "/">>,
      <<"m", "a", "r", "v", "e", "l", ".", "c", "o", "m">>,
      <<"m", "a", "r", "v", "e", "l", ".", "c", "o", "m", "/">>,
      <<"w", "w", "w", ".">>,
      <<"/">>, <<"c">> }

RECURSIVE Concat(_)
Concat(ss) == IF ss = <<>> THEN <<>> ELSE Head(ss) \o Concat(Tail(ss))

Urls ==
    {Concat(ps) : ps \in SeqsUpTo(UrlParts, MaxUrlParts)}
        \cup { <<"h", "t", "t", "p", ":", "/", "/", "m", "a", "r", "v", "e", "l", ".", "c", "o", "m", "/", "c", "o", "m", "i", "c", "s", "/", "i", "s", "s", "u", "e", "/", "1", "2", "3">>,
               <<"h", "t", "t", "p", "s", ":", "/", "/", "w", "w", "w", ".", "m", "a", "r", "v", "e", "l", ".", "c", "o", "m", "/", "c", "?", "u", "=", "h", "t", "t", "p", ":", "/", "/", "m", "a", "r", "v", "e", "l", ".", "c", "o", "m", "/", "c">>,
               <<"h", "t", "t", "p", ":", "/", "/", "e", "x", "a", "m", "p", "l", "e", ".", "c", "o", "m", "/", "c">> }

\* The longest title made of NormChars.
MaxNormLen == 3

NormChars == {"A", " ", "#", "0", "1", ".", ")"}

Titles ==
    SeqsUpTo(NormChars, MaxNormLen)
        \cup { <<"A", "v", "e", "n", "g", "e", "r", "s", " ", "(", "2", "0", "1", "2", ")", "#", "0", "0", "1">>,
               <<"X", "-", "M", "e", "n", " ", " ", "(", "2", "0", "1", "9", ")", " ", "#", "0", "0", "1", ".", "5", "0">>,
               <<" ", "a", "\t", "\n", " ", "b", " ">>,
               <<"A", " ", "#", "0", ".", "1", ",", " ", "#", "0", "0", "0", " ", "&", " ", "#", "0", "1", "0">>,
               <<"A", "_", "B", " ", "#", "1", "2", ".", "0", "3", ".", "4">> }

InitNormalize ==
    /\ \/ call = "normalize_marvel_url" /\ args \in {JStr(u) : u \in Urls}
       \/ /\ call \in {"normalize_title_spacing", "normalize_title_for_match"}
          /\ args \in {JStr(t) : t \in Titles}
    /\ exact_map = JNull
    /\ normalized_map = JNull
    /\ queries = <<>>
    /\ calls = 1
    /\ buckets = <<>>
    /\ now = 0
    /\ granted = <<>>
    /\ limiter = <<>>
    /\ db = {}
    /\ txn = {}
    /\ count = 0
    /\ pc = "start"
    /\ ret = JNull
    /\ err = "none"
    /\ payload = JNull
    /\ year_page = JNull
    /\ pool = <<>>
    /\ obj = JNull
    /\ packed = <<>>
    /\ cursor = 0
    /\ stack = <<>>
    /\ out = <<>>

NextNormalize == NormalizeMarvelUrl \/ NormalizeTitleSpacing \/ NormalizeTitleForMatch

SpecNormalize == InitNormalize /\ [][NextNormalize]_vars

---------------------------------------------------------------------------
(* api/middleware.py: RateLimiter and RateLimitMiddleware.dispatch.  The
   clock is counted in ticks, TicksPerSecond to the second, and tokens in
   units of which Token make one token: a tick adds requests_per_minute
   units to a bucket, which is self.rate tokens per second. *)

\* What create_app constructs the middleware with.
requests_per_minute == 60
burst == 30

\* The readings of time.time() are this many to the second.
TicksPerSecond == 2

\* One token, in units.
Token == 60 * TicksPerSecond

\* self.rate, in units per tick
rate == limiter.requests_per_minute

Min(a, b) == IF a <= b THEN a ELSE b

\* self.buckets[ip]: the defaultdict makes the bucket of an ip not seen yet
BucketOf(ip) ==
    IF ip \in DOMAIN buckets THEN buckets[ip] ELSE <<limiter.burst * Token, now>>

\* tokens after "Add tokens based on time elapsed"
Refilled(ip) ==
    Min(limiter.burst * Token, BucketOf(ip)[1] + (now - BucketOf(ip)[2]) * rate)

\* the mutant of Stored: a denied call takes what the bucket has
Stored_denied_emptied(ip) ==
    IF Refilled(ip) >= Token THEN Refilled(ip) - Token ELSE 0

\* the tokens is_allowed(ip) stores in the bucket
Stored(ip) ==
    IF Refilled(ip) >= Token THEN Refilled(ip) - Token ELSE Refilled(ip)

\* is_allowed(ip): (allowed, remaining, reset_seconds)
is_allowed(ip) ==
    IF Refilled(ip) >= Token
    THEN <<TRUE, (Refilled(ip) - Token) \div Token, 0>>
    ELSE <<FALSE, 0, (Token - Refilled(ip)) \div (TicksPerSecond * rate)>>

GrantedTo(ip) == IF ip \in DOMAIN granted THEN granted[ip] ELSE 0

\* The last second of a run of create_app's limiter: the run spans one
\* window of 60 seconds.
MaxClock == 59

\* The last tick of a run of a limiter constructed otherwise.
MaxTicks == 4

ClientIps == {"10.0.0.1"}

\* The clients of a limiter constructed otherwise.
OtherClientIps == {"10.0.0.1", "10.0.0.2"}

\* What a limiter is constructed with otherwise.
OtherLimiters == [requests_per_minute : {30, 60, 120}, burst : {1, 2}]

\* dispatch(request, call_next) for a request of ip, is_allowed included
Dispatch(ip) ==
    /\ call = "RateLimitMiddleware"
    /\ args' = ip
    /\ ret' = [allowed |-> is_allowed(ip)[1],
               remaining |-> is_allowed(ip)[2],
               reset |-> is_allowed(ip)[3],
               status_code |-> IF is_allowed(ip)[1] THEN 200 ELSE 429]
    /\ buckets' = [i \in DOMAIN buckets \cup {ip} |->
                      IF i # ip THEN buckets[i] ELSE <<Stored(ip), now>>]
    /\ granted' = [i \in DOMAIN granted \cup {ip} |->
                      IF i = ip /\ is_allowed(ip)[1] THEN GrantedTo(i) + 1
                      ELSE GrantedTo(i)]
    /\ UNCHANGED <<call, pc, err, now, limiter, exact_map, normalized_map, queries, calls>>
    /\ UNCHANGED decoderVars
    /\ UNCHANGED repoVars

\* a second passes
Tick ==
    /\ call = "RateLimitMiddleware"
    /\ now < MaxClock * TicksPerSecond
    /\ now' = now + TicksPerSecond
    /\ UNCHANGED <<call, pc, args, ret, err, buckets, granted, limiter>>
    /\ UNCHANGED <<exact_map, normalized_map, queries, calls>>
    /\ UNCHANGED decoderVars
    /\ UNCHANGED repoVars

\* a part of a second passes
TickPart ==
    /\ call = "RateLimitMiddleware"
    /\ now < MaxTicks
    /\ now' = now + 1
    /\ UNCHANGED <<call, pc, args, ret, err, buckets, granted, limiter>>
    /\ UNCHANGED <<exact_map, normalized_map, queries, calls>>
    /\ UNCHANGED decoderVars
    /\ UNCHANGED repoVars

InitLimiter ==
    /\ call = "RateLimitMiddleware"
    /\ limiter = [requests_per_minute |-> requests_per_minute, burst |-> burst]
    /\ buckets = <<>>
    /\ now = 0
    /\ granted = <<>>
    /\ db = {}
    /\ txn = {}
    /\ count = 0
    /\ args = JNull
    /\ exact_map = JNull
    /\ normalized_map = JNull
    /\ queries = <<>>
    /\ calls = 1
    /\ pc = "serving"
    /\ ret = JNull
    /\ err = "none"
    /\ payload = JNull
    /\ year_page = JNull
    /\ pool = <<>>
    /\ obj = JNull
    /\ packed = <<>>
    /\ cursor = 0
    /\ stack = <<>>
    /\ out = <<>>

NextLimiter == (\E ip \in ClientIps : Dispatch(ip)) \/ Tick

SpecLimiter == InitLimiter /\ [][NextLimiter]_vars

\* A limiter constructed with other arguments, with two clients and a clock
\* read between the seconds.
InitOtherLimiter ==
    /\ call = "RateLimitMiddleware"
    /\ limiter \in OtherLimiters
    /\ buckets = <<>>
    /\ now = 0
    /\ granted = <<>>
    /\ db = {}
    /\ txn = {}
    /\ count = 0
    /\ args = JNull
    /\ exact_map = JNull
    /\ normalized_map = JNull
    /\ queries = <<>>
    /\ calls = 1
    /\ pc = "serving"
    /\ ret = JNull
    /\ err = "none"
    /\ payload = JNull
    /\ year_page = JNull
    /\ pool = <<>>
    /\ obj = JNull
    /\ packed = <<>>
    /\ cursor = 0
    /\ stack = <<>>
    /\ out = <<>>

NextOtherLimiter == (\E ip \in OtherClientIps : Dispatch(ip)) \/ TickPart

SpecOtherLimiter == InitOtherLimiter /\ [][NextOtherLimiter]_vars

---------------------------------------------------------------------------
(* data/repository.py: IssueRepository.upsert_batch.  The iterator yields
   the issues of the batch with the ids 1, 2, ... in this order; a write
   after a commit opens a transaction, which commit makes durable and
   rollback undoes. *)

\* "Commit periodically for very large batches": every so many issues
CommitEvery == 1000

\* The most issues the iterator yields.
MaxBatch == 1002

BatchIds == 1..MaxBatch

\* The rows of the issues table before the call; the id 0 is of no issue of
\* the batch.
RowsBefore == {{}, {0}}

\* repo.upsert_batch(issues) is called
UpsertBatch ==
    /\ call = "upsert_batch"
    /\ pc = "start"
    /\ count' = 0
    /\ pc' = "loop"
    /\ UNCHANGED <<call, args, ret, err, exact_map, normalized_map, queries, calls>>
    /\ UNCHANGED <<db, txn>>
    /\ UNCHANGED decoderVars
    /\ UNCHANGED limiterVars

\* one pass of the loop: the iterator yields an issue, self.upsert(issue)
\* writes it, count += 1, and every CommitEvery issues self.conn.commit()
UpsertNext ==
    /\ call = "upsert_batch"
    /\ pc = "loop"
    /\ count < MaxBatch
    /\ count' = count + 1
    /\ IF (count + 1) % CommitEvery = 0
       THEN /\ db' = db \cup txn \cup {count + 1}
            /\ txn' = {}
       ELSE /\ txn' = txn \cup {count + 1}
            /\ db' = db
    /\ UNCHANGED <<call, pc, args, ret, err, exact_map, normalized_map, queries, calls>>
    /\ UNCHANGED decoderVars
    /\ UNCHANGED limiterVars

\* a pass of the loop raises, in the iterator or in self.upsert(issue):
\* except Exception: self.conn.rollback(); raise
UpsertRaises ==
    /\ call = "upsert_batch"
    /\ pc = "loop"
    /\ count < MaxBatch
    /\ txn' = {}
    /\ err' = "Exception"
    /\ pc' = "raised"
    /\ UNCHANGED <<call, args, ret, exact_map, normalized_map, queries, calls>>
    /\ UNCHANGED <<db, count>>
    /\ UNCHANGED decoderVars
    /\ UNCHANGED limiterVars

\* the iterator is exhausted: self.conn.commit(); return count
BatchDone ==
    /\ call = "upsert_batch"
    /\ pc = "loop"
    /\ db' = db \cup txn
    /\ txn' = {}
    /\ ret' = JInt(count)
    /\ pc' = "returned"
    /\ UNCHANGED <<call, args, err, exact_map, normalized_map, queries, calls>>
    /\ UNCHANGED count
    /\ UNCHANGED decoderVars
    /\ UNCHANGED limiterVars

InitBatch ==
    /\ call = "upsert_batch"
    /\ db \in RowsBefore
    /\ txn = {}
    /\ count = 0
    /\ pc = "start"
    /\ ret = JNull
    /\ err = "none"
    /\ args = JNull
    /\ exact_map = JNull
    /\ normalized_map = JNull
    /\ queries = <<>>
    /\ calls = 1
    /\ buckets = <<>>
    /\ now = 0
    /\ granted = <<>>
    /\ limiter = <<>>
    /\ payload = JNull
    /\ year_page = JNull
    /\ pool = <<>>
    /\ obj = JNull
    /\ packed = <<>>
    /\ cursor = 0
    /\ stack = <<>>
    /\ out = <<>>

NextBatch == UpsertBatch \/ UpsertNext \/ UpsertRaises \/ BatchDone

SpecBatch == InitBatch /\ [][NextBatch]_vars

---------------------------------------------------------------------------
(* The claims about decode_refs, checked under SpecRefs *)

\* The calls of dec that have returned and whose result the state still
\* holds, as <<argument, result>>: the nested calls of every active call,
\* and the outermost call once decode_refs has returned.
ArgsOf(f) ==
    CASE IsRef(f.x) -> <<At(pool, f.x)>>
      [] isinstance_list(f.x) -> f.x.v
      [] OTHER -> [n \in 1..Len(f.x.v) |-> f.x.v[n].v]

DecResults ==
    UNION {{<<ArgsOf(stack[d])[n], stack[d].acc[n]>> : n \in 1..Len(stack[d].acc)} :
           d \in 1..Len(stack)}
    \cup (IF pc = "returned" THEN {<<obj, ret>>} ELSE {})

\* The values inside a list or dict, in order.
Elems(x) ==
    IF isinstance_list(x) THEN x.v ELSE [n \in 1..Len(x.v) |-> x.v[n].v]

IsContainer(x) == isinstance_list(x) \/ isinstance_dict(x)

\* An integer (not a boolean) that is no index of the pool.
IsOutOfRangeInt(x) == x.t = "int" /\ (x.v < 0 \/ x.v >= Len(pool))

\* An integer (not a boolean) that is an index of the pool.
IsInRangeInt(x) == x.t = "int" /\ x.v >= 0 /\ x.v < Len(pool)

\* C1: decode_refs terminates on every pool, cyclic ones included: a call
\* returns or ends with decode_refs's own depth failure, so dec is never
\* called inside a call of dec on the same argument (dec depends on nothing
\* but the pool and its argument, so such a call repeats for ever), and the
\* recursion is never ended by the interpreter's stack running out.
C1_RecursionBounded ==
    /\ \A a, b \in 1..Len(stack) : a < b => stack[a].x # stack[b].x
    /\ err # "RecursionError"

\* C2 as claimed: when pool[i] is an integer, decode_refs(pool, i) follows it
\* as a further index: the result is decode_refs(pool, pool[i]) (null when
\* pool[i] is out of range) and never an integer.
C2_ChainFollowed ==
    (pc = "returned" /\ IsInRangeInt(obj) /\ pool[obj.v + 1].t = "int")
        => /\ ret.t # "int"
           /\ IsOutOfRangeInt(pool[obj.v + 1]) => ret = JNull

\* C2 as amended: when pool[i] is an integer, decode_refs(pool, i) returns
\* pool[i] itself; an integer pool entry is a value and is not followed.  The
\* same holds for an index met inside a list or dict being resolved.
C2_IntEntryReturned ==
    \A c \in DecResults :
        (IsInRangeInt(c[1]) /\ pool[c[1].v + 1].t = "int") => c[2] = pool[c[1].v + 1]

C2_Witness ==
    /\ pc = "returned"
    /\ IsInRangeInt(obj)
    /\ pool[obj.v + 1].t = "int"
    /\ IsInRangeInt(pool[obj.v + 1])
    /\ pool[pool[obj.v + 1].v + 1].t = "str"
    /\ ret = pool[obj.v + 1]

\* C3: an integer i < 0 or i >= len(pool) resolves to null and raises no
\* error, as decode_refs's argument and at any depth inside a list or dict:
\* that position of the result is null and the result has every other
\* position of the value.
C3_OutOfRangeIsNull ==
    /\ \A c \in DecResults : IsOutOfRangeInt(c[1]) => c[2] = JNull
    /\ \A c \in DecResults :
          IsContainer(c[1]) =>
            /\ c[2].t = c[1].t
            /\ Len(c[2].v) = Len(c[1].v)
            /\ \A n \in 1..Len(c[1].v) :
                  IsOutOfRangeInt(Elems(c[1])[n]) => Elems(c[2])[n] = JNull
    /\ IsOutOfRangeInt(obj) => err = "none" /\ pc \in {"start", "dec", "returned"}

C3_Witness ==
    /\ pc = "returned"
    /\ isinstance_list(obj)
    /\ \E n, m \in 1..Len(obj.v) :
          /\ IsOutOfRangeInt(obj.v[n])
          /\ ret.v[n] = JNull
          /\ IsInRangeInt(obj.v[m])
          /\ ret.v[m] = pool[obj.v[m].v + 1]

\* C4: a boolean, string, float or null is returned unchanged, as
\* decode_refs's argument and at any depth inside a list or dict; true and
\* false are never taken as the indices 1 and 0.
C4_PrimitivesUnchanged ==
    /\ \A c \in DecResults :
          c[1].t \in {"bool", "str", "float", "null"} => c[2] = c[1]
    /\ \A c \in DecResults :
          IsContainer(c[1]) =>
            \A n \in 1..Len(c[1].v) :
                Elems(c[1])[n].t \in {"bool", "str", "float", "null"}
                    => Elems(c[2])[n] = Elems(c[1])[n]

C4_Witness ==
    /\ pc = "returned"
    /\ obj = JBool(TRUE)
    /\ Len(pool) >= 2
    /\ pool[2] # JBool(TRUE)
    /\ ret = JBool(TRUE)

-----\* C21: when i is an index of the pool and pool[i] is a string, a number,
\* null or a boolean, decode_refs(pool, i) returns pool[i] itself; the same
\* holds for such an index met inside a list or dict being resolved.
C21_PrimitiveEntryReturned ==
    \A c \in DecResults :
        (/\ IsInRangeInt(c[1])
         /\ pool[c[1].v + 1].t \in {"str", "int", "float", "null", "bool"})
            => c[2] = pool[c[1].v + 1]

C21_Witness ==
    /\ pc = "returned"
    /\ IsInRangeInt(obj)
    /\ pool[obj.v + 1] = JInt(12345)
    /\ ret = JInt(12345)

----------------------------------------------------------------------
(* The claims about extract_pool, iter_packed_issue_dicts and
   decode_issues_from_payload, checked under SpecDecode *)

\* The pool has been located: extract_pool has returned.
Located == pc \notin {"start"} /\ err # "ValueError"

\* An object with the keys detailUrl and title whose raw values are both
\* integers, a boolean not being one.
HasIntegerFields(e) ==
    /\ e.t = "dict"
    /\ HasKey(e, "detailUrl")
    /\ HasKey(e, "title")
    /\ Get(e, "detailUrl").t = "int"
    /\ Get(e, "title").t = "int"

\* C5: iter_packed_issue_dicts yields a pool entry if and only if it is an
\* object with both keys detailUrl and title whose raw values are integers; an
\* entry whose raw detailUrl or title is a string, boolean, float, null, array
\* or object is never yielded.
C5_YieldsExactlyIntegerShaped ==
    Located =>
        \A n \in 1..Len(pool) :
            (\E m \in 1..Len(packed) : packed[m] = pool[n]) <=> HasIntegerFields(pool[n])

\* The packed dictionaries the loop is done with: those taken, less the one
\* being decoded or the one whose decoding raised.
Finished ==
    IF pc \in {"dec", "body"} \/ err = "RecursionError" THEN cursor - 1 ELSE cursor

\* C6: every record returned has a string title and a string detailUrl; a
\* packed candidate whose resolved title or detailUrl is not a string is left
\* out without any error being raised, and all other candidates of the pool
\* are still decoded and returned: once a candidate has been left out no
\* error ends the call, and the call returns only after it has taken every
\* candidate.
C6_DropsAndGoesOn ==
    /\ \A n \in 1..Len(out) :
          /\ Get(out[n], "title").t = "str"
          /\ Get(out[n], "detailUrl").t = "str"
    /\ (Located /\ Finished > Len(out)) => err = "none"
    /\ pc = "returned" => cursor = Len(packed)

\* Every array of the value x, x included.
RECURSIVE ArraysIn(_)
ArraysIn(x) ==
    IF IsContainer(x)
    THEN (IF x.t = "list" THEN {x} ELSE {})
         \cup UNION {ArraysIn(Elems(x)[n]) : n \in 1..Len(x.v)}
    ELSE {}

\* The array at nodes[2].data, if the payload has one.
PrimaryData(p) ==
    IF /\ HasKey(p, "nodes")
       /\ Get(p, "nodes").t = "list"
       /\ Len(Get(p, "nodes").v) >= 3
       /\ Get(p, "nodes").v[3].t = "dict"
       /\ Get(Get(p, "nodes").v[3], "data").t = "list"
    THEN {Get(Get(p, "nodes").v[3], "data")}
    ELSE {}

\* An array with an element that is an object with an integer detailUrl.
HasIntegerDetailUrl(a) ==
    \E n \in 1..Len(a.v) :
        /\ a.v[n].t = "dict"
        /\ HasKey(a.v[n], "detailUrl")
        /\ Get(a.v[n], "detailUrl").t = "int"

\* C7: extract_pool returns an array that is part of the payload or fails
\* with ValueError; it fails exactly when nodes[2].data is absent or not an
\* array and no array of the payload has an element that is an object with an
\* integer detailUrl.
C7_FailsExactlyWithoutCandidate ==
    pc # "start" =>
        /\ err = "ValueError" <=>
              /\ PrimaryData(payload) = {}
              /\ \A a \in ArraysIn(payload) : ~HasIntegerDetailUrl(a)
        /\ err # "ValueError" => JList(pool) \in ArraysIn(payload)


\* The index x is in the pool p and the entry there is a string: what a
\* title or detailUrl must resolve to for the record to be returned.
IsStringIndex(p, x) == x.t = "int" /\ x.v >= 0 /\ x.v < Len(p) /\ p[x.v + 1].t = "str"

\* A valid packed record of the pool p: an object with integer title and
\* detailUrl that resolve to strings.
IsValidPacked(p, e) ==
    /\ HasIntegerFields(e)
    /\ IsStringIndex(p, Get(e, "title"))
    /\ IsStringIndex(p, Get(e, "detailUrl"))

\* C22: when nodes has at least three elements and nodes[2] is an object
\* whose data is an array, extract_pool returns that array, whatever it
\* holds, and never fails or returns another array of the payload;
\* decode_issues_from_payload then returns the empty list when no entry of
\* that array is a valid packed record.
C22_PrimaryPathTaken ==
    \A d \in PrimaryData(payload) :
        /\ pc # "start" => err # "ValueError" /\ JList(pool) = d
        /\ (\A n \in 1..Len(d.v) : ~IsValidPacked(d.v, d.v[n])) =>
              /\ pc # "raised"
              /\ pc = "returned" => out = <<>>

\* The arrays of the value x in the order of a pre-order walk: an array
\* comes before the arrays inside it, and the values of an array or object
\* are walked in their order.
RECURSIVE ArraysPreOrder(_)
RECURSIVE ArraysPreOrderEach(_)
ArraysPreOrder(x) ==
    IF x.t = "list" THEN <<x>> \o ArraysPreOrderEach(x.v)
    ELSE IF x.t = "dict" THEN ArraysPreOrderEach(Elems(x))
    ELSE <<>>

ArraysPreOrderEach(s) ==
    IF s = <<>> THEN <<>> ELSE ArraysPreOrder(Head(s)) \o ArraysPreOrderEach(Tail(s))

\* The candidates of the payload, in pre-order.
Candidates(p) == SelectSeq(ArraysPreOrder(p), HasIntegerDetailUrl)

\* The first of the longest arrays of the sequence cs.
FirstLongest(cs) ==
    cs[CHOOSE n \in 1..Len(cs) :
          /\ \A m \in 1..Len(cs) : Len(cs[m].v) <= Len(cs[n].v)
          /\ \A m \in 1..(n - 1) : Len(cs[m].v) < Len(cs[n].v)]

\* C23: when nodes[2].data is absent or not an array and the payload has a
\* candidate, extract_pool returns the longest candidate, and of several
\* longest ones the first in pre-order; a candidate is an array with an
\* element that is an object with an integer detailUrl.
C23_LongestCandidateFirstMet ==
    (pc # "start" /\ PrimaryData(payload) = {} /\ Candidates(payload) # <<>>)
        => /\ err # "ValueError"
           /\ JList(pool) = FirstLongest(Candidates(payload))

\* The valid packed records of the pool p, in the order of the pool.
ValidPacked(p) == SelectSeq(p, LAMBDA e : IsValidPacked(p, e))

\* The record r is the one of the packed entry e of the pool p: it has e's
\* keys, its title is the string e's title points at and its detailUrl the
\* normalized string e's detailUrl points at.
IsRecordOf(p, e, r) ==
    /\ r.t = "dict"
    /\ \A n \in 1..Len(e.v) : HasKey(r, e.v[n].k)
    /\ Get(r, "title") = p[Get(e, "title").v + 1]
    /\ Get(r, "detailUrl") = JStr(normalize_marvel_url(p[Get(e, "detailUrl").v + 1].v))

\* C24: once the pool is located the call returns, and what it returns has
\* one record for each valid packed entry, in the order of the entries in
\* the pool; entries that resolve to the same record each have theirs.
C24_OneRecordPerValidEntry ==
    (Located /\ pc \in {"returned", "raised"}) =>
        /\ pc = "returned"
        /\ Len(out) = Len(ValidPacked(pool))
        /\ \A n \in 1..Len(out) : IsRecordOf(pool, ValidPacked(pool)[n], out[n])

---------------------------------------------------------------------------
(* TitleMatcher.match: what the claims say, under SpecMatch *)

Matched == call = "TitleMatcher" /\ pc = "matched"

\* The normalized match key of the query.
QueryKey == normalize_title_for_match(args.title)

\* The normalized query with the four substrings taken out, one after the
\* other.
QueryKeyBare ==
    str_replace(str_replace(str_replace(str_replace(QueryKey,
        <<" ", "v", "a", "r", "i", "a", "n", "t">>, <<>>),
        <<" ", "d", "i", "r", "e", "c", "t", "o", "r">>, <<>>),
        <<" ", "d", "e", "l", "u", "x", "e">>, <<>>),
        <<" ", "a", "n", "n", "u", "a", "l">>, <<>>)

IsExact == HasKey(exact_map, args.title)
IsNormalized == HasKey(normalized_map, QueryKey)
IsSimplified == HasKey(normalized_map, QueryKeyBare)

NoMatch == <<JNull, JFloat("0.0")>>

\* C8: match returns the result of the first step that applies: exact key
\* (1.0), fuzzy false (none, 0.0), normalized key (0.9), normalized key with
\* the suffix substrings removed (0.8), otherwise (none, 0.0); a lower tier
\* is never returned when a higher one applies, and with fuzzy false a
\* non-exact query gets (none, 0.0) even when its normalized key is known.
C8_FirstStepWins ==
    Matched =>
        /\ IsExact => ret = <<Get(exact_map, args.title), JFloat("1.0")>>
        /\ ~IsExact /\ ~args.fuzzy => ret = NoMatch
        /\ ~IsExact /\ args.fuzzy /\ IsNormalized =>
               ret = <<Get(normalized_map, QueryKey), JFloat("0.9")>>
        /\ ~IsExact /\ args.fuzzy /\ ~IsNormalized /\ IsSimplified =>
               ret = <<Get(normalized_map, QueryKeyBare), JFloat("0.8")>>
        /\ ~IsExact /\ args.fuzzy /\ ~IsNormalized /\ ~IsSimplified => ret = NoMatch

\* A query that is no corpus title, asked with fuzzy false while its
\* normalized key is in the normalized map, got (none, 0.0).
C8_Witness ==
    /\ Matched
    /\ ~IsExact /\ ~args.fuzzy /\ IsNormalized
    /\ ret = NoMatch

\* C9: the confidence is one of 1.0, 0.9, 0.8, 0.0; the URL is absent
\* exactly when the confidence is 0.0; an unmatched title yields (none, 0.0)
\* and no error.
C9_ClosedConfidence ==
    Matched =>
        /\ ret[2] \in {JFloat("1.0"), JFloat("0.9"), JFloat("0.8"), JFloat("0.0")}
        /\ ret[1] = JNull <=> ret[2] = JFloat("0.0")
        /\ isinstance_str(ret[1]) \/ ret[1] = JNull
        /\ ~IsExact /\ ~IsNormalized /\ ~IsSimplified => ret = NoMatch
        /\ err = "none"

\* A fuzzy query that matches on no tier got (none, 0.0).
C9_Witness ==
    /\ Matched
    /\ args.fuzzy /\ ~IsExact /\ ~IsNormalized /\ ~IsSimplified
    /\ ret = NoMatch
    /\ err = "none"

\* The position in the corpus of the first title whose normalized key is
\* that of the title at position n.
FirstWithKeyOf(n) ==
    CHOOSE m \in 1..n :
        /\ normalize_title_for_match(exact_map.v[m].k)
              = normalize_title_for_match(exact_map.v[n].k)
        /\ \A l \in 1..(m - 1) :
              normalize_title_for_match(exact_map.v[l].k)
                  # normalize_title_for_match(exact_map.v[n].k)

\* The URL of the first corpus title whose normalized key is key.
FirstUrlOf(key) ==
    LET n == CHOOSE m \in 1..Len(exact_map.v) :
                 normalize_title_for_match(exact_map.v[m].k) = key
    IN  exact_map.v[FirstWithKeyOf(n)].v

\* C25: the normalized map holds, for the key of every corpus title, the URL
\* of the first title of the corpus with that key, and has no other key; a
\* 0.9 or 0.8 match returns the URL of the first corpus title with the key
\* it matched on.
C25_FirstSeenUrlWins ==
    (call = "TitleMatcher" /\ pc # "new") =>
        /\ \A n \in 1..Len(exact_map.v) :
              Get(normalized_map, normalize_title_for_match(exact_map.v[n].k))
                  = exact_map.v[FirstWithKeyOf(n)].v
        /\ \A n \in 1..Len(normalized_map.v) :
              \E m \in 1..Len(exact_map.v) :
                  normalize_title_for_match(exact_map.v[m].k) = normalized_map.v[n].k
        /\ (Matched /\ ret[2] = JFloat("0.9")) => ret[1] = FirstUrlOf(QueryKey)
        /\ (Matched /\ ret[2] = JFloat("0.8")) => ret[1] = FirstUrlOf(QueryKeyBare)

\* Two corpus titles have the same key and different URLs, and a 0.9 match
\* on that key got the URL of the first.
C25_Witness ==
    /\ Matched
    /\ Len(exact_map.v) = 2
    /\ normalize_title_for_match(exact_map.v[1].k)
          = normalize_title_for_match(exact_map.v[2].k)
    /\ exact_map.v[1].v # exact_map.v[2].v
    /\ QueryKey = normalize_title_for_match(exact_map.v[1].k)
    /\ ret = <<exact_map.v[1].v, JFloat("0.9")>>

---------------------------------------------------------------------------
(* expand_range: what the claims say, under SpecRange *)

Expanded == call = "expand_range" /\ pc = "returned"

RangeSides == str_split_once(args.range_spec, "-")

\* The range spec reads as 'A-B' with integers A <= B.
IsRangeAB ==
    /\ Len(RangeSides) = 2
    /\ py_int(RangeSides[1]).raised = "none"
    /\ py_int(RangeSides[2]).raised = "none"
    /\ py_int(RangeSides[1]).value <= py_int(RangeSides[2]).value

RangeA == py_int(RangeSides[1]).value
RangeB == py_int(RangeSides[2]).value

\* The places of the '#'s of s that a digit follows at once.
HashesBeforeDigit(s) == {k \in 1..Len(s) - 1 : s[k] = "#" /\ IsDigit(s[k + 1])}

\* Those of them with at least one character before them and no line break
\* among those characters.
HashesAfterText(s) ==
    {k \in HashesBeforeDigit(s) : k > 1 /\ \A j \in 1..k - 1 : s[j] # "\n"}

Last(S) == CHOOSE k \in S : \A j \in S : j <= k

\* The titles prefix + n for n = A .. B, in ascending order.
TitlesFrom(prefix) ==
    JList([n \in 1..RangeB - RangeA + 1 |-> JStr(prefix \o IntToStr(RangeA + n - 1))])

\* C10 as stated: with a range 'A-B', A <= B, and a base title that has a '#'
\* immediately followed by a digit, expand_range returns the B-A+1 titles
\* prefix + n in ascending order, the prefix ending at the last such '#',
\* whatever text, if any, stands before it.
C10_AnyTextBeforeHash ==
    Expanded /\ IsRangeAB /\ HashesBeforeDigit(args.base_title) # {} =>
        ret = TitlesFrom(SubSeq(args.base_title, 1, Last(HashesBeforeDigit(args.base_title))))

\* C10 amended: the '#' that ends the prefix is the last one that a digit
\* follows at once and that has at least one character before it, none of
\* them a line break; a base title with such a '#' expands to the B-A+1
\* titles prefix + n in ascending order.
C10_TextBeforeHash ==
    Expanded /\ IsRangeAB /\ HashesAfterText(args.base_title) # {} =>
        /\ Len(ret.v) = RangeB - RangeA + 1
        /\ ret = TitlesFrom(SubSeq(args.base_title, 1, Last(HashesAfterText(args.base_title))))

\* A range of several numbers was expanded on a base title with more than
\* one '#' before a digit.
C10_Witness ==
    /\ Expanded /\ IsRangeAB /\ RangeA < RangeB
    /\ Cardinality(HashesBeforeDigit(args.base_title)) > 1
    /\ HashesAfterText(args.base_title) # {}
    /\ Len(ret.v) = RangeB - RangeA + 1
    /\ ret.v[1] # JStr(args.base_title)

\* Both sides of the first dash of the range spec read as integers.
BothSidesIntegers ==
    /\ Len(RangeSides) = 2
    /\ py_int(RangeSides[1]).raised = "none"
    /\ py_int(RangeSides[2]).raised = "none"

\* C11: when the range spec does not split around '-' into two integers, or
\* the base title has no '#' immediately followed by a digit, expand_range
\* raises nothing and returns the one-element list [base_title], the title
\* unmodified.
C11_FailSoft ==
    Expanded /\ (~BothSidesIntegers \/ HashesBeforeDigit(args.base_title) = {}) =>
        /\ ret = JList(<<JStr(args.base_title)>>)
        /\ err = "none"

\* A title without any '#' before a digit was given a range of several
\* numbers and came back alone and unmodified.
C11_Witness ==
    /\ Expanded
    /\ BothSidesIntegers /\ RangeA < RangeB
    /\ args.base_title # <<>>
    /\ HashesBeforeDigit(args.base_title) = {}
    /\ ret = JList(<<JStr(args.base_title)>>)
    /\ err = "none"

\* C28: expand_range returns a list with at least one title, for every base
\* title and every range spec, a spec "A-B" with A > B included.
C28_NeverEmpty ==
    (call = "expand_range" /\ pc = "returned") => Len(ret.v) >= 1

---------------------------------------------------------------------------
(* parse_json, parse_yaml: what the claims say, under SpecParse *)

Parsed == call \in {"parse_json", "parse_yaml"} /\ pc = "returned"

EntriesOf == GetOr(args, "items", JList(<<>>)).v

\* The entry is a range entry that expand_range turns into other titles
\* than its own.
IsExpandedEntry(e) ==
    /\ isinstance_dict(e)
    /\ ~FalsyStr(Get(e, "range"))
    /\ expand_range(GetOr(e, "title", JStr(<<>>)).v, Get(e, "range").v)
           # JList(<<GetOr(e, "title", JStr(<<>>))>>)

\* The items of an entry as the claim has them: without the note when the
\* entry is expanded.
ItemsWithoutNote(e) ==
    IF isinstance_str(e) THEN <<ReadingListItem(e.v, <<>>)>>
    ELSE IF ~isinstance_dict(e) THEN <<>>
    ELSE IF IsExpandedEntry(e)
         THEN LET titles == expand_range(GetOr(e, "title", JStr(<<>>)).v, Get(e, "range").v).v
              IN  [n \in 1..Len(titles) |-> ReadingListItem(titles[n].v, <<>>)]
         ELSE <<ReadingListItem(GetOr(e, "title", JStr(<<>>)).v, GetOr(e, "note", JStr(<<>>)).v)>>

RECURSIVE AllItemsWithoutNote(_)
AllItemsWithoutNote(es) ==
    IF es = <<>> THEN <<>>
    ELSE ItemsWithoutNote(Head(es)) \o AllItemsWithoutNote(Tail(es))

\* C12: every item made by expanding a range entry into individual titles
\* has an empty note; only an entry kept in its un-expanded form keeps the
\* note of its source entry, in parse_json and in parse_yaml.
C12_ExpandedItemsHaveNoNote ==
    Parsed => ret = JList(AllItemsWithoutNote(EntriesOf))

---------------------------------------------------------------------------
(* decode_issues_from_payload: the records returned, under SpecDecode *)

StartsWith(s, prefix) == Len(s) >= Len(prefix) /\ SubSeq(s, 1, Len(prefix)) = prefix

CanonicalPrefix == <<"h", "t", "t", "p", "s", ":", "/", "/", "w", "w", "w", ".", "m", "a", "r", "v", "e", "l", ".", "c", "o", "m", "/">>

\* The URL has scheme http or https and host marvel.com or www.marvel.com.
IsMarvelUrl(s) ==
    \/ StartsWith(s, <<"h", "t", "t", "p", ":", "/", "/", "m", "a", "r", "v", "e", "l", ".", "c", "o", "m", "/">>)
    \/ StartsWith(s, <<"h", "t", "t", "p", "s", ":", "/", "/", "m", "a", "r", "v", "e", "l", ".", "c", "o", "m", "/">>)
    \/ StartsWith(s, <<"h", "t", "t", "p", ":", "/", "/", "w", "w", "w", ".", "m", "a", "r", "v", "e", "l", ".", "c", "o", "m", "/">>)
    \/ StartsWith(s, CanonicalPrefix)

Returned_out == call = "decode_issues_from_payload" /\ pc = "returned"

---------------------------------------------------------------------------
(* normalizer.py: what the claims say, under SpecNormalize *)

\* C14: normalize_marvel_url, normalize_title_spacing and
\* normalize_title_for_match are idempotent: f(f(x)) = f(x) for every string
\* x.  At "twice", args holds f(x) and ret holds f(f(x)).
C14_Idempotent ==
    /\ call \in {"normalize_marvel_url", "normalize_title_spacing",
                 "normalize_title_for_match"}
    /\ pc = "twice"
    => ret = args

\* A title that normalize_title_for_match changes was normalized twice, and
\* the second pass changed nothing.
C14_Witness ==
    /\ call = "normalize_title_for_match"
    /\ pc = "twice"
    /\ args.v = <<"a", " ", "#", "0", ".", "1", " ", "#", "0", " ", "#", "1", "0">>
    /\ ret = args

Schemes == { <<"h", "t", "t", "p", ":", "/", "/">>, <<"h", "t", "t", "p", "s", ":", "/", "/">> }

Hosts == { <<"m", "a", "r", "v", "e", "l", ".", "c", "o", "m">>, <<"w", "w", "w", ".", "m", "a", "r", "v", "e", "l", ".", "c", "o", "m">> }

\* The ways to read s as scheme, host and path, the path empty or starting
\* with '/'.
UrlReadings(s) ==
    { r \in [scheme : Schemes, host : Hosts, cut : 0..Len(s)] :
        /\ r.cut = Len(r.scheme) + Len(r.host)
        /\ r.cut <= Len(s)
        /\ SubSeq(s, 1, r.cut) = r.scheme \o r.host
        /\ r.cut = Len(s) \/ s[r.cut + 1] = "/" }

\* C15: a URL with scheme http or https and host marvel.com or
\* www.marvel.com comes back with scheme https, host www.marvel.com and the
\* input's path unchanged, whether the path is empty or not and whatever
\* characters it contains; a canonical URL comes back unchanged.
C15_HostForcedPathKept ==
    call = "normalize_marvel_url" /\ pc = "once" =>
        \A r \in UrlReadings(args.v) :
            ret.v = <<"h", "t", "t", "p", "s", ":", "/", "/">> \o <<"w", "w", "w", ".", "m", "a", "r", "v", "e", "l", ".", "c", "o", "m">>
                        \o SubSeq(args.v, r.cut + 1, Len(args.v))

\* The issue-number tokens of s from position n on, in order: '#' with
\* digits, and with '.' and digits after them when they are there.
RECURSIVE TokensFrom(_, _)
TokensFrom(s, n) ==
    IF n > Len(s) THEN <<>>
    ELSE IF IssueNumEnd(s, n) # 0
         THEN <<SubSeq(s, n, IssueNumEnd(s, n) - 1)>> \o TokensFrom(s, IssueNumEnd(s, n))
         ELSE TokensFrom(s, n + 1)

HasDecimal(token) == \E n \in 1..Len(token) : token[n] = "."

\* The digits without their leading zeros, one zero left of an all-zero run.
RECURSIVE WithoutLeadingZeros(_)
WithoutLeadingZeros(ds) ==
    IF Len(ds) > 1 /\ ds[1] = "0" THEN WithoutLeadingZeros(Tail(ds)) ELSE ds

\* C16: in the output of normalize_title_for_match every token '#<digits>'
\* of the input without a decimal part has lost the leading zeros of its
\* integer part (an all-zero token becomes #0), and every token
\* '#<digits>.<digits>' is as it was written.
C16_IssueNumbers ==
    call = "normalize_title_for_match" /\ pc = "once" =>
        LET given == TokensFrom(args.v, 1)
        IN  TokensFrom(ret.v, 1) =
                [n \in 1..Len(given) |->
                    IF HasDecimal(given[n]) THEN given[n]
                    ELSE <<"#">> \o WithoutLeadingZeros(Tail(given[n]))]

\* A title with a decimal token, an all-zero token and a zero-padded token
\* was normalized.
C16_Witness ==
    /\ call = "normalize_title_for_match" /\ pc = "once"
    /\ TokensFrom(args.v, 1) = <<<<"#", "0", ".", "1">>, <<"#", "0", "0", "0">>, <<"#", "0", "1", "0">>>>
    /\ TokensFrom(ret.v, 1) = <<<<"#", "0", ".", "1">>, <<"#", "0">>, <<"#", "1", "0">>>>

---------------------------------------------------------------------------
(* TitleMatcher with several callers: what the claims say, under
   SpecQueries.  args stays the title_to_url the matcher was built from. *)

Constructed == call = "TitleMatcher" /\ pc = "ready" /\ DOMAIN queries = Callers

\* C17: no sequence of match and find_similar calls, of any callers in any
\* interleaving, changes the exact map or the normalized map: both stay as
\* construction left them, and the result of each call is the one the
\* corpus and the call's own arguments give.
C17_MapsStay ==
    Constructed =>
        /\ exact_map = args
        /\ normalized_map = BuildNormalized(args.v, JDict(<<>>))
        /\ \A c \in Callers :
               queries[c].at = "done" =>
                   IF queries[c].op = "match"
                   THEN queries[c].result =
                            match(args, BuildNormalized(args.v, JDict(<<>>)),
                                  queries[c].title, queries[c].opt.v)
                   ELSE queries[c].result =
                            find_similar(args, queries[c].title, queries[c].opt.v)

\* Two callers are in the matcher at once: one has its match while the other
\* is inside the loop of find_similar with a pair found.
C17_Witness ==
    /\ Constructed
    /\ \E c, d \in Callers :
          /\ queries[c].op = "match" /\ queries[c].at = "done"
          /\ queries[c].result[1] # JNull
          /\ queries[d].op = "find_similar" /\ queries[d].at = "loop"
          /\ queries[d].result.v # <<>>

\* The corpus entries whose normalized title contains the normalized query
\* or is contained in it, in corpus order.
SimilarEntries(title) ==
    SelectSeq(exact_map.v,
              LAMBDA it :
                  \/ str_contains(normalize_title_for_match(it.k),
                                  normalize_title_for_match(title))
                  \/ str_contains(normalize_title_for_match(title),
                                  normalize_title_for_match(it.k)))

\* C26: find_similar(query, limit) returns at most limit pairs, and they are
\* the first entries of the corpus, in its order, whose normalized title
\* contains the normalized query or is contained in it.
C26_AtMostLimitFirstSimilar ==
    \A c \in DOMAIN queries :
        (queries[c].op = "find_similar" /\ queries[c].at = "done") =>
            /\ Len(queries[c].result.v) <= queries[c].opt.v
            /\ queries[c].result.v
                  = [n \in 1..Min(queries[c].opt.v, Len(SimilarEntries(queries[c].title))) |->
                        Pair(SimilarEntries(queries[c].title)[n].k,
                             SimilarEntries(queries[c].title)[n].v)]

---------------------------------------------------------------------------
(* decode_issues_from_payload: one call and the next, under SpecDecodeMany *)

\* decode_refs as a function of the pool and the object alone.
RECURSIVE Resolved(_, _)
Resolved(p, x) ==
    IF isinstance_bool(x) THEN x
    ELSE IF isinstance_int(x)
         THEN IF x.v < 0 \/ x.v >= Len(p) THEN JNull
              ELSE IF p[x.v + 1].t \in {"list", "dict"} THEN Resolved(p, p[x.v + 1])
              ELSE p[x.v + 1]
    ELSE IF isinstance_list(x) THEN JList([n \in 1..Len(x.v) |-> Resolved(p, x.v[n])])
    ELSE IF isinstance_dict(x)
         THEN JDict([n \in 1..Len(x.v) |-> Item(x.v[n].k, Resolved(p, x.v[n].v))])
    ELSE x

\* The records of the candidates cs, for a call that has nothing but its
\* arguments.
RECURSIVE RecordsAlone(_, _, _)
RecordsAlone(p, cs, yp) ==
    IF cs = <<>> THEN <<>>
    ELSE (IF Keeps(Resolved(p, Head(cs)))
          THEN <<Record(Resolved(p, Head(cs)), yp)>> ELSE <<>>)
         \o RecordsAlone(p, Tail(cs), yp)

\* What decoding the payload alone returns.
DecodedAlone(p, yp) ==
    RecordsAlone(extract_pool(p).value.v, iter_packed_issue_dicts(extract_pool(p).value.v), yp)

C19_IdIsInteger ==
    Returned_out =>
        \A n \in 1..Len(out) :
            HasKey(out[n], "id") /\ Get(out[n], "id").t = "int"

---------------------------------------------------------------------------
(* RateLimiter: what the claims say, under SpecLimiter.  A run spans the
   seconds 0 to MaxClock, one window of 60 seconds. *)

\* C20: for every client IP and every window of 60 seconds the rate limiter
\* (requests_per_minute = 60, burst = 30) lets at most 60 requests of that IP
\* through; any further request of the IP in the window is denied with
\* status 429.
C20_SixtyPerWindow ==
    call = "RateLimitMiddleware" =>
        \A ip \in DOMAIN granted : granted[ip] <= requests_per_minute

---------------------------------------------------------------------------
(* RateLimiter constructed with other arguments: what the claims say, under
   SpecOtherLimiter *)

\* A request has been answered.
Answered == call = "RateLimitMiddleware" /\ DOMAIN buckets # {}

\* C29: the tokens stored for an ip are at least 0 and at most burst; a
\* call of is_allowed(ip) is allowed exactly when the refilled tokens of ip
\* are at least one token, an allowed call stores one token less than the
\* refilled tokens, a denied call stores the refilled tokens, and the call
\* leaves the bucket of every other ip as it was.
C29_BucketsWithinBurst ==
    /\ [](\A ip \in DOMAIN buckets :
             buckets[ip][1] >= 0 /\ buckets[ip][1] <= limiter.burst * Token)
    /\ [][(call = "RateLimitMiddleware" /\ now' = now) =>
             /\ ret'.allowed <=> Refilled(args') >= Token
             /\ ret'.allowed => buckets'[args'][1] = Refilled(args') - Token
             /\ ~ret'.allowed => buckets'[args'][1] = Refilled(args')
             /\ \A ip \in DOMAIN buckets : ip # args' => buckets'[ip] = buckets[ip]
             /\ DOMAIN buckets' = DOMAIN buckets \cup {args'}]_vars

\* A call for one ip was denied and left that ip a part of a token, while
\* another ip has its bucket.
C29_Witness ==
    /\ Answered
    /\ ~ret.allowed
    /\ buckets[args][1] > 0
    /\ \E ip \in DOMAIN buckets : ip # args /\ buckets[ip][1] # buckets[args][1]

\* C30: when the last request, of the ip args, was denied with
\* reset_seconds = r and r seconds have passed since, the bucket being as
\* that call left it, a request of that ip made now is allowed.
C30_AllowedAfterReset ==
    (/\ Answered
     /\ ~ret.allowed
     /\ now = buckets[args][2] + ret.reset * TicksPerSecond)
        => is_allowed(args)[1]

---------------------------------------------------------------------------
(* upsert_batch: what the claims say, under SpecBatch *)

\* C27: when a pass of the loop of upsert_batch raises, the rollback leaves
\* the issues table with no row of an issue of the batch, however many
\* issues the loop had processed.
C27_NothingOfTheBatchStored ==
    (call = "upsert_batch" /\ pc = "raised") => db \cap BatchIds = {}

========================================================================
